---------------------------- MODULE Spec2Model ----------------------------
(***************************************************************************)
(* Model of the WHO SMART guidelines demo: the logic layer (who_logic.py), *)
(* the tool surface (who-mcp.py) and the HTTP surface (main.py).           *)
(*                                                                         *)
(* Every operation is a single request/response: an action takes one      *)
(* input, runs the whole handler and leaves the outcome in `res`; Respond  *)
(* hands the outcome to the caller and returns the worker to idle.         *)
(*                                                                         *)
(* A second specification, SpecConcurrent, runs the handlers of several    *)
(* callers at once, the risk analysis statement by statement: `frames`     *)
(* holds the local variables of each caller's call in flight and `globals` *)
(* the names bound at module level.                                        *)
(*                                                                         *)
(* Python values are records tagged with their type in field t.  Numbers   *)
(* are integers: measurements are whole kilograms and centimetres, and     *)
(* the comparisons against age_in_days / 30.4375 (= 487/16) are carried    *)
(* out exactly, cross-multiplied by 487.                                   *)
(***************************************************************************)
EXTENDS Integers, Sequences, FiniteSets, TLC

VARIABLES pc, op, req, res, frames, globals

vars == <<pc, op, req, res, frames, globals>>

(***************************************************************************)
(* Bounds of the model.                                                    *)
(***************************************************************************)
\* first calendar year of the anchor dates drawn as inputs
FirstYear == 2023
\* number of consecutive calendar years the anchor dates are drawn from
NumYears == 2

Years == FirstYear .. (FirstYear + NumYears - 1)

(***************************************************************************)
(* Python values.                                                          *)
(***************************************************************************)
\* a key that is not in the dict
Absent == [t |-> "absent", n |-> 0]
\* None
None == [t |-> "none", n |-> 0]
PyInt(n) == [t |-> "int", n |-> n]
PyBool(b) == [t |-> "bool", n |-> IF b THEN 1 ELSE 0]
\* a string holding the decimal numeral of n, such as "150"
NumStr(n) == [t |-> "numstr", n |-> n]
\* a string that is no numeral, such as "abc"
BadStr == [t |-> "badstr", n |-> 0]
\* the empty string
EmptyStr == [t |-> "emptystr", n |-> 0]
\* an ordinary non-empty string used as a name or identifier
Str(s) == [t |-> "str", s |-> s]
\* a positive float whose square is no double: "tiny" such as 1e-200, whose
\* square underflows to 0.0, or "huge" such as 1e200, whose square overflows
PyFloat(mag) == [t |-> "float", n |-> 0, mag |-> mag]

\* The text Y-M-D of a date field; pad tells whether month and day are
\* written with two digits ("2023-01-05") or not ("2023-1-5").
DateStr(y, m, d, pad) == [t |-> "datestr", y |-> y, m |-> m, d |-> d, pad |-> pad]
\* the other values a date field can hold, in the shape of DateStr; the
\* number is 20230101
DateOther(t) == [t |-> t, y |-> 0, m |-> 0, d |-> 0, pad |-> TRUE,
                 n |-> IF t = "int" THEN 20230101 ELSE 0]

\* a bug to compare with: the test `is not None` on the result of dict.get
\* in the place of truthiness, with None itself let through
present_only(v) == v.t # "absent"

\* Python truthiness: bool(v)
Truthy(v) ==
    CASE v.t \in {"absent", "none", "emptystr"} -> FALSE
      [] v.t \in {"int", "bool"} -> v.n # 0
      [] OTHER -> TRUE

IsStr(v) == v.t \in {"str", "datestr", "numstr", "badstr", "emptystr"}

(***************************************************************************)
(* datetime: proleptic Gregorian ordinals, as datetime.date computes them. *)
(***************************************************************************)
is_leap(y) == y % 4 = 0 /\ (y % 100 # 0 \/ y % 400 = 0)

days_before_year(y) ==
    (y - 1) * 365 + ((y - 1) \div 4) - ((y - 1) \div 100) + ((y - 1) \div 400)

DAYS_IN_MONTH == <<31, 28, 31, 30, 31, 30, 31, 31, 30, 31, 30, 31>>

DAYS_BEFORE_MONTH == <<0, 31, 59, 90, 120, 151, 181, 212, 243, 273, 304, 334>>

days_in_month(y, m) == IF m = 2 /\ is_leap(y) THEN 29 ELSE DAYS_IN_MONTH[m]

days_before_month(y, m) ==
    DAYS_BEFORE_MONTH[m] + (IF m > 2 /\ is_leap(y) THEN 1 ELSE 0)

\* a datetime at midnight: the calendar date [y, m, d]
Date(y, m, d) == [y |-> y, m |-> m, d |-> d]

ymd2ord(dt) == days_before_year(dt.y) + days_before_month(dt.y, dt.m) + dt.d

ord2ymd(ordinal) ==
    LET n0   == ordinal - 1
        n400 == n0 \div 146097
        r400 == n0 % 146097
        n100 == r400 \div 36524
        r100 == r400 % 36524
        n4   == r100 \div 1461
        r4   == r100 % 1461
        n1   == r4 \div 365
        n    == r4 % 365
        year == n400 * 400 + 1 + n100 * 100 + n4 * 4 + n1
    IN  IF n1 = 4 \/ n100 = 4
        THEN Date(year - 1, 12, 31)
        ELSE LET leapyear == n1 = 3 /\ (n4 # 24 \/ n100 = 3)
                 month0   == (n + 50) \div 32
                 prec0    == DAYS_BEFORE_MONTH[month0]
                               + (IF month0 > 2 /\ leapyear THEN 1 ELSE 0)
                 month    == IF prec0 > n THEN month0 - 1 ELSE month0
                 prec     == IF prec0 > n
                             THEN prec0 - (DAYS_IN_MONTH[month]
                                     + (IF month = 2 /\ leapyear THEN 1 ELSE 0))
                             ELSE prec0
             IN  Date(year, month, n - prec + 1)

\* dt + timedelta(days = n)
plus_days(dt, n) == ord2ymd(ymd2ord(dt) + n)

\* dt + relativedelta(months = months, days = days): months beyond 11 are
\* carried into years, the month is moved with one wrap, the day is clipped
\* to the length of the month reached, and the days are added last
\* a bug to compare with: a day past the end of the target month rolls over
\* into the next month instead of being clipped
plus_relativedelta_rollover(dt, months, days) ==
    LET m0    == dt.m + (months % 12)
        year  == dt.y + (months \div 12) + (IF m0 > 12 THEN 1 ELSE 0)
        month == IF m0 > 12 THEN m0 - 12 ELSE m0
    IN  plus_days(Date(year, month, 1), dt.d - 1 + days)

\* a bug to compare with: a month past December wraps without carrying the
\* year
plus_relativedelta_no_carry(dt, months, days) ==
    LET y0    == dt.y + (months \div 12)
        m0    == dt.m + (months % 12)
        month == IF m0 > 12 THEN m0 - 12 ELSE m0
        dim   == days_in_month(y0, month)
        day   == IF dt.d < dim THEN dt.d ELSE dim
    IN  plus_days(Date(y0, month, day), days)

plus_relativedelta(dt, months, days) ==
    LET years == months \div 12
        mon   == months % 12
        y0    == dt.y + years
        m0    == dt.m + mon
        year  == IF m0 > 12 THEN y0 + 1 ELSE y0
        month == IF m0 > 12 THEN m0 - 12 ELSE m0
        dim   == days_in_month(year, month)
        day   == IF dt.d < dim THEN dt.d ELSE dim
    IN  plus_days(Date(year, month, day), days)

\* a bug to compare with: the number of days without its sign
days_between_unsigned(a, b) ==
    IF ymd2ord(a) >= ymd2ord(b) THEN ymd2ord(a) - ymd2ord(b)
    ELSE ymd2ord(b) - ymd2ord(a)

\* (a - b).days
days_between(a, b) == ymd2ord(a) - ymd2ord(b)

\* datetime.strptime(v, '%Y-%m-%d') succeeds: the text matches the pattern
\* and names a day of the calendar
\* a bug to compare with: the day is checked against 31, whatever the month
strptime_ok_any_month_length(v) ==
    /\ v.t = "datestr"
    /\ v.m \in 1..12
    /\ v.d >= 1
    /\ v.d <= 31

strptime_ok(v) ==
    /\ v.t = "datestr"
    /\ v.m \in 1..12
    /\ v.d >= 1
    /\ v.d <= days_in_month(v.y, v.m)

\* what strptime raises when it does not succeed
strptime_exc(v) == IF IsStr(v) THEN "ValueError" ELSE "TypeError"

strptime(v) == Date(v.y, v.m, v.d)

\* dt.strftime('%Y-%m-%d'): zero-padded year-month-day
strftime(dt) == DateStr(dt.y, dt.m, dt.d, TRUE)

\* dt.isoformat() of a datetime at midnight: "YYYY-MM-DDT00:00:00"
isoformat(dt) == [t |-> "isodatetime", y |-> dt.y, m |-> dt.m, d |-> dt.d,
                  time |-> "T00:00:00"]

(***************************************************************************)
(* Outcomes of a call.                                                     *)
(***************************************************************************)
\* the call ends in an exception nobody catches
Raise(exc) == [kind |-> "raise", exc |-> exc]
\* return ({"error": msg}, 400)
Error400(msg) == [kind |-> "return", status |-> 400, body |-> [error |-> msg]]
\* return body  (a plain dict; the logic layer attaches no status)
Return(body) == [kind |-> "return", body |-> body]
\* return (body, status)
ReturnStatus(body, status) == [kind |-> "return", status |-> status, body |-> body]

IsRaise(r) == r.kind = "raise"
IsError(r) == r.kind = "return" /\ "error" \in DOMAIN r.body
IsSuccess(r) == r.kind = "return" /\ "error" \notin DOMAIN r.body

(***************************************************************************)
(* A request body: body = "none" is an absent/null body, body = "dict" a   *)
(* dictionary whose keys are the fields that are not Absent.               *)
(***************************************************************************)
Has(data, key) == data[key].t # "absent"
\* data.get(key): None for a key that is not there
Get(data, key) == IF Has(data, key) THEN data[key] ELSE None
\* not data: None or the empty dict
NotData(data, keys) == data.body = "none" \/ \A k \in keys : ~Has(data, k)

(***************************************************************************)
(* calculate_edd                                                           *)
(***************************************************************************)
EDD_DAYS == 280

\* a bug to compare with: Naegele's rule taken literally, 9 months and 7 days
edd_by_months(lmp_date) == plus_relativedelta(lmp_date, 9, 7)

\* a bug to compare with: the EDD taken at 39 weeks
edd_at_39_weeks(lmp_date) == plus_days(lmp_date, 39 * 7)

\* edd_date = lmp_date + timedelta(days=280)
edd_from_lmp(lmp_date) == plus_days(lmp_date, EDD_DAYS)

\* a bug to compare with: nine months of thirty days
lmp_by_months(edd_date) == plus_days(edd_date, 0 - 270)

\* lmp_date = edd_date - timedelta(days=280)
lmp_from_edd(edd_date) == plus_days(edd_date, 0 - EDD_DAYS)

calculate_edd_logic(data) ==
    IF NotData(data, {"lmp_date"}) \/ ~Has(data, "lmp_date")
    THEN Error400("LMP date not provided")
    ELSE LET lmp_date_str == data.lmp_date IN
         IF ~strptime_ok(lmp_date_str)
         THEN IF strptime_exc(lmp_date_str) = "ValueError"
              THEN Error400("Invalid LMP date format. Use YYYY-MM-DD.")
              ELSE Raise(strptime_exc(lmp_date_str))
         ELSE LET lmp_date == strptime(lmp_date_str)
                  edd_date == edd_from_lmp(lmp_date)
              IN  Return([lmp_date |-> lmp_date_str,
                          estimated_delivery_date |-> strftime(edd_date),
                          calculation_method |-> "Naegele's Rule (LMP + 280 days)"])

\* who-mcp.py: calculate_edd(lmp_date)
mcp_calculate_edd(lmp_date) ==
    calculate_edd_logic([body |-> "dict", lmp_date |-> lmp_date])

(***************************************************************************)
(* Identifier/Reference builder.  create_fhir_id draws a fresh uuid4; the  *)
(* identifiers are no part of the modelled outcome.                        *)
(***************************************************************************)
\* {"reference": f"{resource_type}/{resource_id}"}
create_fhir_reference(resource_type, resource_id) ==
    [reference |-> <<resource_type, "/", resource_id>>]

\* {"coding": [{system, code, display}], "text": text or display}
create_codeable_concept(system, code, display, text) ==
    [coding |-> <<[system |-> system, code |-> code, display |-> display]>>,
     text |-> IF text = "" THEN display ELSE text]

(***************************************************************************)
(* schedule_anc_visits                                                     *)
(***************************************************************************)
visit_weeks == <<
    [weeks |-> 12, description |-> "First contact: Up to 12 weeks"],
    [weeks |-> 20, description |-> "Second contact: 20 weeks"],
    [weeks |-> 26, description |-> "Third contact: 26 weeks"],
    [weeks |-> 30, description |-> "Fourth contact: 30 weeks"],
    [weeks |-> 34, description |-> "Fifth contact: 34 weeks"],
    [weeks |-> 36, description |-> "Sixth contact: 36 weeks"],
    [weeks |-> 38, description |-> "Seventh contact: 38 weeks"],
    [weeks |-> 40, description |-> "Eighth contact: 40 weeks (or around EDD)"] >>

\* a bug to compare with: the weeks passed as days
weeks_as_days(w) == w

\* timedelta(weeks = w) in days
weeks_to_days(w) == 7 * w

\* the end of a visit's window: visit_date + timedelta(days = 1)
visit_window_end(visit_date) == plus_days(visit_date, 1)

\* the loop over visit_weeks: one activity per row, in the order of the rows
anc_activities(lmp_date) ==
    [i \in 1..Len(visit_weeks) |->
        LET visit_date == plus_days(lmp_date, weeks_to_days(visit_weeks[i].weeks))
        IN  [detail |->
              [kind |-> "Appointment",
               code |-> create_codeable_concept("http://snomed.info/sct", "390807002",
                                                "Antenatal care (procedure)", ""),
               status |-> "scheduled",
               description |-> visit_weeks[i].description,
               scheduledPeriod |-> [start |-> isoformat(visit_date),
                                    end |-> isoformat(visit_window_end(visit_date))]]]]

\* the CarePlan built from the two anchor dates
anc_care_plan(lmp_date, edd_date, patient_id) ==
    Return([resourceType |-> "CarePlan",
            status |-> "active",
            intent |-> "plan",
            title |-> "Antenatal Care Visit Schedule",
            description |-> <<"Proposed schedule of 8 ANC contacts based on LMP: ",
                              strftime(lmp_date)>>,
            subject |-> create_fhir_reference("Patient", patient_id),
            period |-> [start |-> isoformat(lmp_date), end |-> isoformat(edd_date)],
            activity |-> anc_activities(lmp_date),
            instantiatesCanonical |-> <<"http://who.int/smart-guidelines/anc/schedule">>])

\* a bug to compare with: the EDD is the anchor whenever it is given
edd_first(lmp_date_str, edd_date_str) == ~Truthy(edd_date_str)

\* if lmp_date_str: ... else: ...  (reached when one of the two is truthy)
lmp_first(lmp_date_str, edd_date_str) == Truthy(lmp_date_str)

schedule_anc_visits_logic(data) ==
    IF data.body = "none"
    THEN Raise("AttributeError")
    ELSE LET lmp_date_str == Get(data, "lmp_date")
             edd_date_str == Get(data, "edd_date")
             patient_id   == IF Has(data, "patient_id") THEN data.patient_id
                             ELSE Str("patient-example")
         IN  IF ~Truthy(lmp_date_str) /\ ~Truthy(edd_date_str)
             THEN Error400("Either LMP date or EDD date must be provided")
             ELSE LET anchor == IF lmp_first(lmp_date_str, edd_date_str)
                                THEN lmp_date_str
                                ELSE edd_date_str
                  IN  IF ~strptime_ok(anchor)
                      THEN IF strptime_exc(anchor) = "ValueError"
                           THEN Error400("Invalid date format. Use YYYY-MM-DD.")
                           ELSE Raise(strptime_exc(anchor))
                      ELSE IF lmp_first(lmp_date_str, edd_date_str)
                           THEN LET lmp_date == strptime(lmp_date_str)
                                    edd_date == edd_from_lmp(lmp_date)
                                IN  anc_care_plan(lmp_date, edd_date, patient_id)
                           ELSE LET edd_date == strptime(edd_date_str)
                                    lmp_date == lmp_from_edd(edd_date)
                                IN  anc_care_plan(lmp_date, edd_date, patient_id)

\* who-mcp.py: schedule_anc_visits(lmp_date=None, edd_date=None, patient_id=None)
mcp_schedule_anc_visits(lmp_date, edd_date, patient_id) ==
    schedule_anc_visits_logic([body |-> "dict", lmp_date |-> lmp_date,
                               edd_date |-> edd_date, patient_id |-> patient_id])

(***************************************************************************)
(* analyze_anc_visit_data                                                  *)
(***************************************************************************)
\* int(v) raises ValueError: a string that is no numeral
int_fails(v) == v.t = "badstr"

\* the try block of the blood-pressure check: TRUE when the flag is appended.
\* `or` evaluates int(bp_diastolic) only when the systolic test is false, and
\* a ValueError from either int() leaves the block without a flag.
high_bp(bp_systolic, bp_diastolic) ==
    IF int_fails(bp_systolic) THEN FALSE
    ELSE IF bp_systolic.n >= 140 THEN TRUE
    ELSE IF int_fails(bp_diastolic) THEN FALSE
    ELSE bp_diastolic.n >= 90

\* if bp_systolic and bp_diastolic: ...
bp_check(bp_systolic, bp_diastolic) ==
    Truthy(bp_systolic) /\ Truthy(bp_diastolic) /\ high_bp(bp_systolic, bp_diastolic)

\* a bug to compare with: if bleeding:
bleeding_check_truthy(bleeding) == Truthy(bleeding)

\* if bleeding is True
bleeding_check(bleeding) == bleeding.t = "bool" /\ bleeding.n = 1

HIGH_BP_RISK ==
    [risk_code |-> "ANC_HIGH_BP",
     description |-> "Elevated blood pressure, potential for pre-eclampsia.",
     severity |-> "high"]

HIGH_BP_RECOMMENDATION ==
    "Immediate follow-up with a clinician for blood pressure assessment."

BLEEDING_RISK ==
    [risk_code |-> "ANC_BLEEDING",
     description |-> "Patient reports bleeding.",
     severity |-> "high"]

BLEEDING_RECOMMENDATION == "Urgent assessment for cause of bleeding."

\* a bug to compare with: the synthetic entry carries a risk code
NO_RISK_with_code ==
    [risk_code |-> "ANC_NO_RISK",
     description |-> "No immediate high-risk factors identified based on this limited data.",
     severity |-> "low"]

NO_RISK ==
    [description |-> "No immediate high-risk factors identified based on this limited data.",
     severity |-> "low"]

NO_RISK_RECOMMENDATION ==
    "Continue routine ANC care as per schedule. Reinforce education on danger signs."

\* data.get(key, {}).get(field) raises AttributeError: the value under key
\* is there and is None
get_get_fails(data, key) == Has(data, key) /\ data[key].t # "dict"

\* data.get(key, {}).get(field)
get_get(data, key, field) ==
    IF Has(data, key) THEN Get(data[key], field) ELSE None

\* a bug to compare with: the checks run in the order in which the keys of the
\* body were inserted
analyze_in_key_order(data) ==
    IF data.body = "none" THEN Raise("AttributeError")
    ELSE IF get_get_fails(data, "vitals") \/ get_get_fails(data, "symptoms")
    THEN Raise("AttributeError")
    ELSE LET bp == bp_check(get_get(data, "vitals", "bp_systolic"),
                            get_get(data, "vitals", "bp_diastolic"))
             bl == bleeding_check(get_get(data, "symptoms", "bleeding"))
             idx(key) == CHOOSE i \in DOMAIN data.key_order : data.key_order[i] = key
             vitals_first == idx("vitals") < idx("symptoms")
             r_bp == IF bp THEN <<HIGH_BP_RISK>> ELSE <<>>
             c_bp == IF bp THEN <<HIGH_BP_RECOMMENDATION>> ELSE <<>>
             r_bl == IF bl THEN <<BLEEDING_RISK>> ELSE <<>>
             c_bl == IF bl THEN <<BLEEDING_RECOMMENDATION>> ELSE <<>>
             risks == IF vitals_first THEN r_bp \o r_bl ELSE r_bl \o r_bp
             recs  == IF vitals_first THEN c_bp \o c_bl ELSE c_bl \o c_bp
         IN  Return([analysis_summary |-> "ANC visit data analyzed.",
                     risks_identified |-> IF risks = <<>> THEN <<NO_RISK>> ELSE risks,
                     recommendations |->
                         IF risks = <<>> THEN <<NO_RISK_RECOMMENDATION>> ELSE recs,
                     guideline_reference |->
                         "http://who.int/smart-guidelines/anc/risk-assessment"])

analyze_anc_visit_data_logic(data) ==
    IF data.body = "none" THEN Raise("AttributeError")
    ELSE IF get_get_fails(data, "vitals") THEN Raise("AttributeError")
    ELSE LET bp_systolic  == get_get(data, "vitals", "bp_systolic")
             bp_diastolic == get_get(data, "vitals", "bp_diastolic")
             bp       == bp_check(bp_systolic, bp_diastolic)
             risks1   == IF bp THEN <<HIGH_BP_RISK>> ELSE <<>>
             recs1    == IF bp THEN <<HIGH_BP_RECOMMENDATION>> ELSE <<>>
         IN  IF get_get_fails(data, "symptoms") THEN Raise("AttributeError")
             ELSE LET bleeding == get_get(data, "symptoms", "bleeding")
                      bl     == bleeding_check(bleeding)
                      risks2 == IF bl THEN Append(risks1, BLEEDING_RISK) ELSE risks1
                      recs2  == IF bl THEN Append(recs1, BLEEDING_RECOMMENDATION)
                                ELSE recs1
                      none   == risks2 = <<>>
                  IN  Return([analysis_summary |-> "ANC visit data analyzed.",
                              risks_identified |->
                                  IF none THEN <<NO_RISK>> ELSE risks2,
                              recommendations |->
                                  IF none THEN <<NO_RISK_RECOMMENDATION>> ELSE recs2,
                              guideline_reference |->
                                  "http://who.int/smart-guidelines/anc/risk-assessment"])

\* who-mcp.py: analyze_anc_visit_data(vitals=None, symptoms=None, patient_id=None)
mcp_analyze_anc_visit_data(vitals, symptoms, patient_id) ==
    analyze_anc_visit_data_logic([body |-> "dict",
                                  key_order |-> <<"vitals", "symptoms", "patient_id">>,
                                  vitals |-> vitals,
                                  symptoms |-> symptoms, patient_id |-> patient_id])

(***************************************************************************)
(* get_immunization_schedule                                               *)
(***************************************************************************)
\* age_months is kept in tenths of a month: 15 is 1.5 months
immunization_plan == <<
    [vaccine |-> "BCG", age_months |-> 0, dose |-> "Birth dose"],
    [vaccine |-> "OPV-0", age_months |-> 0, dose |-> "Birth dose"],
    [vaccine |-> "Hepatitis B - Birth", age_months |-> 0, dose |-> "Birth dose"],
    [vaccine |-> "Pentavalent-1 (DTP-HepB-Hib)", age_months |-> 15, dose |-> "1st dose (6 weeks)"],
    [vaccine |-> "OPV-1", age_months |-> 15, dose |-> "1st dose (6 weeks)"],
    [vaccine |-> "PCV-1", age_months |-> 15, dose |-> "1st dose (6 weeks)"],
    [vaccine |-> "Rotavirus-1", age_months |-> 15, dose |-> "1st dose (6 weeks)"],
    [vaccine |-> "Pentavalent-2", age_months |-> 25, dose |-> "2nd dose (10 weeks)"],
    [vaccine |-> "OPV-2", age_months |-> 25, dose |-> "2nd dose (10 weeks)"],
    [vaccine |-> "PCV-2", age_months |-> 25, dose |-> "2nd dose (10 weeks)"],
    [vaccine |-> "Rotavirus-2", age_months |-> 25, dose |-> "2nd dose (10 weeks)"],
    [vaccine |-> "Pentavalent-3", age_months |-> 35, dose |-> "3rd dose (14 weeks)"],
    [vaccine |-> "OPV-3", age_months |-> 35, dose |-> "3rd dose (14 weeks)"],
    [vaccine |-> "PCV-3", age_months |-> 35, dose |-> "3rd dose (14 weeks)"],
    [vaccine |-> "IPV-1", age_months |-> 35, dose |-> "1st dose (14 weeks)"],
    [vaccine |-> "Measles-Mumps-Rubella (MMR) - 1", age_months |-> 90, dose |-> "1st dose"],
    [vaccine |-> "Vitamin A - 1", age_months |-> 90, dose |-> "1st dose"],
    [vaccine |-> "Measles-Mumps-Rubella (MMR) - 2", age_months |-> 150, dose |-> "2nd dose"],
    [vaccine |-> "DTP Booster 1", age_months |-> 180, dose |-> "Booster (1.5 years)"],
    [vaccine |-> "OPV Booster 1", age_months |-> 180, dose |-> "Booster (1.5 years)"] >>

\* int(item['age_months'])
full_months(age_months) == age_months \div 10

\* int((item['age_months'] % 1) * 30.4375)
fractional_month_days(age_months) == ((age_months % 10) * 304375) \div 100000

\* vaccine_date of one row of the plan
vaccine_date(dob, age_months) ==
    plus_relativedelta(dob, full_months(age_months), fractional_month_days(age_months))

\* a bug to compare with: the one-day window of the ANC visits
vaccine_window_end_one_day(date) == plus_days(date, 1)

\* the end of a vaccine's window: vaccine_date + timedelta(days = 7)
vaccine_window_end(date) == plus_days(date, 7)

\* the body of the loop: the activity of one row of the plan (the vaccine
\* code looked up by substring is left out)
immunization_activity(dob, item) ==
    LET date == vaccine_date(dob, item.age_months)
    IN  [detail |->
          [kind |-> "ImmunizationRecommendation",
           status |-> "scheduled",
           description |-> <<item.vaccine, " - ", item.dose>>,
           scheduledPeriod |-> [start |-> isoformat(date),
                                end |-> isoformat(vaccine_window_end(date))]]]

\* a bug to compare with: the loop stops one row early
immunization_activities_short(dob) ==
    [i \in 1..(Len(immunization_plan) - 1) |->
        immunization_activity(dob, immunization_plan[i])]

\* the loop over immunization_plan: one activity per row, in the order of the
\* rows
immunization_activities(dob) ==
    [i \in 1..Len(immunization_plan) |->
        immunization_activity(dob, immunization_plan[i])]

get_immunization_schedule_logic(data) ==
    IF NotData(data, {"dob", "patient_id"}) \/ ~Has(data, "dob") \/ ~Has(data, "patient_id")
    THEN Error400("Date of Birth (dob) and patient_id are required")
    ELSE LET dob_str == data.dob IN
         IF ~strptime_ok(dob_str)
         THEN IF strptime_exc(dob_str) = "ValueError"
              THEN Error400("Invalid DOB format. Use YYYY-MM-DD.")
              ELSE Raise(strptime_exc(dob_str))
         ELSE LET dob == strptime(dob_str)
                  patient_id == data.patient_id
              IN  Return([resourceType |-> "CarePlan",
                          status |-> "active",
                          intent |-> "order",
                          title |-> "Child Immunization Schedule",
                          description |->
                              <<"Recommended immunization schedule for child born on ",
                                dob_str, ".">>,
                          subject |-> create_fhir_reference("Patient", patient_id),
                          activity |-> immunization_activities(dob),
                          instantiatesCanonical |->
                              <<"http://who.int/smart-guidelines/immunization/child">>])

\* who-mcp.py: get_immunization_schedule(dob, patient_id)
mcp_get_immunization_schedule(dob, patient_id) ==
    get_immunization_schedule_logic([body |-> "dict", dob |-> dob,
                                     patient_id |-> patient_id])

(***************************************************************************)
(* growth_monitoring: what the logic layer and the HTTP handler share.     *)
(***************************************************************************)
required_fields == <<"dob", "measurement_date", "weight_kg", "height_cm", "gender",
                     "patient_id">>

\* [field for field in required_fields if field not in data]
missing_fields(data) == SelectSeq(required_fields, LAMBDA f : ~Has(data, f))

\* float(v) raises TypeError: None
float_type_error(v) == v.t = "none"

\* float(v) raises ValueError: a string that is no numeral
float_value_error(v) == v.t \in {"badstr", "emptystr"}

\* str.lower() of the gender strings drawn as inputs
lower(s) ==
    CASE s = "Male" -> "male"
      [] s = "FEMALE" -> "female"
      [] OTHER -> s

\* The try block: the first statement that fails decides the outcome.
\* "ok", "gender" (the return inside the block), or the exception raised.
growth_parse(data) ==
    CASE ~strptime_ok(data.dob) -> strptime_exc(data.dob)
      [] strptime_ok(data.dob) /\ ~strptime_ok(data.measurement_date) ->
            strptime_exc(data.measurement_date)
      [] OTHER ->
            IF float_type_error(data.weight_kg) THEN "TypeError"
            ELSE IF float_value_error(data.weight_kg) THEN "ValueError"
            ELSE IF float_type_error(data.height_cm) THEN "TypeError"
            ELSE IF float_value_error(data.height_cm) THEN "ValueError"
            ELSE IF data.gender.t # "str" THEN "AttributeError"
            ELSE IF lower(data.gender.s) \notin {"male", "female"} THEN "gender"
            ELSE "ok"

\* age_in_months = age_in_days / 30.4375, and 30.4375 = 487/16: the
\* comparisons of age_in_months are made on 487 * age_in_months = 16 * days
age_x487(age_in_days) == 16 * age_in_days

\* round(age_in_months, 2), in hundredths of a month
round_age_in_months(age_in_days) == (3200 * age_in_days + 487) \div 974

\* a bug to compare with: the threshold itself counts as underweight
wfa_code_inclusive(age_in_days, weight_kg) ==
    IF age_x487(age_in_days) < 60 * 487
          /\ 2 * 487 * weight_kg <= 4 * 487 + age_x487(age_in_days)
    THEN "L" ELSE "N"

\* if age_in_months < 60: if weight_kg < (2 + 0.5 * age_in_months): "L"
wfa_code(age_in_days, weight_kg) ==
    IF age_x487(age_in_days) < 60 * 487
          /\ 2 * 487 * weight_kg < 4 * 487 + age_x487(age_in_days)
    THEN "L" ELSE "N"

wfa_text(code) ==
    IF code = "L" THEN "Underweight (potential)" ELSE "Normal weight-for-age"

\* a bug to compare with: the age limit of 60 months is not applied
hfa_code_any_age(age_in_days, height_cm) ==
    IF 487 * height_cm < 50 * 487 + age_x487(age_in_days) THEN "L" ELSE "N"

\* if age_in_months < 60: if height_cm < (50 + age_in_months): "L"
hfa_code(age_in_days, height_cm) ==
    IF age_x487(age_in_days) < 60 * 487
          /\ 487 * height_cm < 50 * 487 + age_x487(age_in_days)
    THEN "L" ELSE "N"

hfa_text(code) ==
    IF code = "L" THEN "Stunted (potential)" ELSE "Normal height-for-age"

\* bmi_like = weight_kg / ((height_cm / 100) ** 2), height_cm > 0:
\* bmi_like < k  is  weight_kg * 10000 < k * height_cm^2
bmi_below(weight_kg, height_cm, k) == weight_kg * 10000 < k * height_cm * height_cm
bmi_above(weight_kg, height_cm, k) == weight_kg * 10000 > k * height_cm * height_cm

\* what weight_kg / ((height_cm / 100) ** 2) raises: ** gives 0.0 when the
\* square underflows, and the division by 0.0 raises; ** itself raises when
\* the square overflows
bmi_like_exc(height_cm) ==
    IF height_cm.t # "float" THEN "none"
    ELSE IF height_cm.mag = "tiny" THEN "ZeroDivisionError"
    ELSE "OverflowError"

\* a bug to compare with: a height of zero or less is read as normal
wfh_code_no_height_check(age_in_days, weight_kg, height_cm) ==
    IF height_cm > 0 /\ bmi_below(weight_kg, height_cm, 15)
          /\ age_x487(age_in_days) > 6 * 487
    THEN "L"
    ELSE IF height_cm > 0 /\ bmi_above(weight_kg, height_cm, 25)
          /\ age_x487(age_in_days) > 24 * 487
    THEN "H"
    ELSE "N"

\* who_logic.py: the weight-for-height branch
wfh_code(age_in_days, weight_kg, height_cm) ==
    IF height_cm > 0
    THEN IF bmi_below(weight_kg, height_cm, 15) /\ age_x487(age_in_days) > 6 * 487
         THEN "L"
         ELSE IF bmi_above(weight_kg, height_cm, 25) /\ age_x487(age_in_days) > 24 * 487
         THEN "H"
         ELSE "N"
    ELSE "IE"

wfh_text(code) ==
    CASE code = "L" -> "Wasting (potential)"
      [] code = "H" -> "Overweight (potential)"
      [] code = "IE" -> "Cannot calculate weight-for-height due to invalid height"
      [] OTHER -> "Normal weight-for-height"

\* create_growth_observation (the fresh id is left out)
create_growth_observation(code, display_text, value, unit, interpretation_text, interpretation_code, patient_id, measurement_date) ==
    [resourceType |-> "Observation",
     status |-> "final",
     code |-> create_codeable_concept("http://loinc.org", code, display_text, ""),
     subject |-> create_fhir_reference("Patient", patient_id),
     effectiveDateTime |-> isoformat(measurement_date),
     valueQuantity |-> [value |-> value, unit |-> unit],
     interpretation |->
        << create_codeable_concept(
               "http://terminology.hl7.org/CodeSystem/v3-ObservationInterpretation",
               interpretation_code, interpretation_text, interpretation_text) >>]

\* the three observations, in the order they are appended
growth_observations(wfa, hfa, wfh, wfh_txt, weight_kg, height_cm, patient_id, measurement_date) ==
    << create_growth_observation("3141-9", "Body weight Measured -- Wt/Age",
                                 weight_kg, "kg", wfa_text(wfa), wfa,
                                 patient_id, measurement_date),
       create_growth_observation("8308-9", "Body height Measured -- Ht/Age",
                                 height_cm, "cm", hfa_text(hfa), hfa,
                                 patient_id, measurement_date),
       create_growth_observation("8340-2", "Body weight Measured -- Wt/Len",
                                 weight_kg, "kg", wfh_txt, wfh,
                                 patient_id, measurement_date) >>

NOTE_NORMAL ==
    "Child growth appears normal based on provided measurements (simplified assessment)."

NOTE_ASSESS == "Further assessment needed if any indicators are abnormal."

\* the code of an observation's interpretation, inside its coding
interpretation_code_of(obs) == obs.interpretation[1].coding[1].code

growth_result(age_in_days, weight_kg, height_cm, gender, observations, note) ==
    [message |-> "Growth monitoring data processed (simplified assessment).",
     age_in_days |-> age_in_days,
     age_in_months |-> round_age_in_months(age_in_days),
     measurements_processed |->
        [weight_kg |-> weight_kg, height_cm |-> height_cm, gender |-> gender],
     fhir_observations |-> observations,
     overall_health_status_note |-> note,
     disclaimer |-> "Z-score calculations and interpretations are highly simplified. Use WHO Anthro library or official tools for accurate assessment."]

(***************************************************************************)
(* growth_monitoring, logic layer                                          *)
(***************************************************************************)
\* all(obs['interpretation'][0]['code'] == "N" for obs in observations
\*     if obs['interpretation'][0].get('code'))
\* interpretation[0] is the CodeableConcept {coding, text}: the filter asks
\* it for the key 'code'
logic_overall_normal(observations) ==
    \A i \in 1..Len(observations) :
        LET concept == observations[i].interpretation[1] IN
        ("code" \in DOMAIN concept) => concept.code = "N"

growth_monitoring_logic(data) ==
    IF data.body = "none" THEN Raise("TypeError")
    ELSE IF missing_fields(data) # <<>>
    THEN ReturnStatus([error |-> "Missing one or more required fields: ",
                       missing |-> missing_fields(data)], 400)
    ELSE LET parsed == growth_parse(data) IN
         IF parsed = "gender" THEN Error400("Gender must be 'male' or 'female'")
         ELSE IF parsed = "ValueError"
         THEN Error400("Invalid data type or date format. Use YYYY-MM-DD for dates, numbers for measurements.")
         ELSE IF parsed # "ok" THEN Raise(parsed)
         ELSE LET dob == strptime(data.dob)
                  measurement_date == strptime(data.measurement_date)
                  weight_kg == data.weight_kg.n
                  height_cm == data.height_cm.n
                  gender == lower(data.gender.s)
                  age_in_days == days_between(measurement_date, dob)
              IN  IF age_in_days < 0
                  THEN Error400("Measurement date cannot be before date of birth.")
                  ELSE IF bmi_like_exc(data.height_cm) # "none"
                  THEN Raise(bmi_like_exc(data.height_cm))
                  ELSE LET wfa == wfa_code(age_in_days, weight_kg)
                           hfa == hfa_code(age_in_days, height_cm)
                           wfh == wfh_code(age_in_days, weight_kg, height_cm)
                           observations ==
                               growth_observations(wfa, hfa, wfh, wfh_text(wfh),
                                   weight_kg, height_cm, data.patient_id,
                                   measurement_date)
                           note == IF logic_overall_normal(observations)
                                   THEN NOTE_NORMAL ELSE NOTE_ASSESS
                       IN  Return(growth_result(age_in_days, weight_kg, height_cm,
                                                gender, observations, note))

\* who-mcp.py: growth_monitoring(dob, measurement_date, weight_kg, height_cm,
\* gender, patient_id)
mcp_growth_monitoring(dob, measurement_date, weight_kg, height_cm, gender, patient_id) ==
    growth_monitoring_logic([body |-> "dict", dob |-> dob,
                             measurement_date |-> measurement_date,
                             weight_kg |-> weight_kg, height_cm |-> height_cm,
                             gender |-> gender, patient_id |-> patient_id])

(***************************************************************************)
(* growth_monitoring, HTTP handler of main.py                              *)
(***************************************************************************)
\* main.py: the weight-for-height branch
http_wfh_code(age_in_days, weight_kg, height_cm) ==
    IF height_cm > 0 /\ bmi_below(weight_kg, height_cm, 15)
          /\ age_x487(age_in_days) > 6 * 487
    THEN "L"
    ELSE IF height_cm > 0 /\ bmi_above(weight_kg, height_cm, 25)
          /\ age_x487(age_in_days) > 24 * 487
    THEN "H"
    ELSE "N"

\* text.startswith("Normal")
startswith_Normal(text) ==
    text \in {"Normal weight-for-age", "Normal height-for-age",
              "Normal weight-for-height"}

\* all(text.startswith("Normal") for obs in observations
\*     if FHIR_RESOURCES_AVAILABLE is False)
\* or all(text.startswith("Normal") for obs in observations
\*        if FHIR_RESOURCES_AVAILABLE)
http_overall_normal(observations, fhir_available) ==
    \/ \A i \in 1..Len(observations) :
          (fhir_available = FALSE) =>
              startswith_Normal(observations[i].interpretation[1].text)
    \/ \A i \in 1..Len(observations) :
          fhir_available =>
              startswith_Normal(observations[i].interpretation[1].text)

\* jsonify(body), status: the response of the HTTP surface
Response(body, status) == ReturnStatus(body, status)

http_growth_monitoring(data, fhir_available) ==
    IF data.body = "none" THEN Raise("TypeError")
    ELSE IF missing_fields(data) # <<>>
    THEN Response([error |-> "Missing one or more required fields: ",
                   missing |-> required_fields], 400)
    ELSE LET parsed == growth_parse(data) IN
         IF parsed = "gender"
         THEN Response([error |-> "Gender must be 'male' or 'female'"], 400)
         ELSE IF parsed = "ValueError"
         THEN Response([error |-> "Invalid data type or date format. Use YYYY-MM-DD for dates, numbers for measurements."], 400)
         ELSE IF parsed # "ok" THEN Raise(parsed)
         ELSE IF bmi_like_exc(data.height_cm) # "none"
         THEN Raise(bmi_like_exc(data.height_cm))
         ELSE LET dob == strptime(data.dob)
                  measurement_date == strptime(data.measurement_date)
                  weight_kg == data.weight_kg.n
                  height_cm == data.height_cm.n
                  gender == lower(data.gender.s)
                  age_in_days == days_between(measurement_date, dob)
                  wfa == wfa_code(age_in_days, weight_kg)
                  hfa == hfa_code(age_in_days, height_cm)
                  wfh == http_wfh_code(age_in_days, weight_kg, height_cm)
                  observations ==
                      growth_observations(wfa, hfa, wfh, wfh_text(wfh),
                          weight_kg, height_cm, data.patient_id, measurement_date)
                  note == IF http_overall_normal(observations, fhir_available)
                          THEN NOTE_NORMAL ELSE NOTE_ASSESS
              IN  Response(growth_result(age_in_days, weight_kg, height_cm,
                                         gender, observations, note), 200)

(***************************************************************************)
(* API info                                                                *)
(***************************************************************************)
get_api_info_logic ==
    Return([message |-> "WHO Guidelines Logic Module (Proof of Concept)",
            description |-> "This module contains business logic for ANC and Child Health based on WHO guidelines.",
            anc_functions |-> <<"register_pregnancy_logic",
                                "get_patient_registration_questionnaire_logic",
                                "calculate_edd_logic",
                                "schedule_anc_visits_logic",
                                "get_anc_visit_questionnaire_logic",
                                "analyze_anc_visit_data_logic">>,
            child_health_functions |-> <<"register_child_logic",
                                         "get_immunization_schedule_logic",
                                         "get_child_health_screening_questionnaire_logic",
                                         "growth_monitoring_logic">>,
            fhir_resources_available |-> FALSE])

\* the functions module who_logic defines
who_logic_names ==
    { "create_fhir_id", "create_fhir_reference", "create_codeable_concept",
      "register_pregnancy_logic", "get_patient_registration_questionnaire_logic",
      "calculate_edd_logic", "schedule_anc_visits_logic",
      "get_anc_visit_questionnaire_logic", "analyze_anc_visit_data_logic",
      "register_child_logic", "get_immunization_schedule_logic",
      "get_child_health_screening_questionnaire_logic", "growth_monitoring_logic",
      "get_api_info_logic" }

\* who_logic.<name>(): an attribute the module does not have is an
\* AttributeError
who_logic_call(name, outcome) ==
    IF name \in who_logic_names THEN outcome ELSE Raise("AttributeError")

\* who-mcp.py: api_info() returns who_logic.api_info_logic()
mcp_api_info == who_logic_call("api_info_logic", get_api_info_logic)

(***************************************************************************)
(* register_pregnancy, register_child and the questionnaire lookups.       *)
(* create_fhir_id() draws a fresh uuid4 and datetime.utcnow() reads the    *)
(* clock: the identifiers drawn (ids) and the instant read (now) are       *)
(* arguments of the operators.                                             *)
(***************************************************************************)
SERVER_BASE_URL == "http://localhost:5001"

\* details.get(key, default)
get_default(details, key, default) ==
    IF Has(details, key) THEN details[key] ELSE default

\* create_fhir_reference(resource_type, resource_id, display): the display is
\* added when it is truthy
create_fhir_reference_display(resource_type, resource_id, display) ==
    IF display # <<>>
    THEN [reference |-> <<resource_type, "/", resource_id>>, display |-> display]
    ELSE [reference |-> <<resource_type, "/", resource_id>>]

\* return {...}, 201
created(body) == ReturnStatus(body, 201)

register_pregnancy_logic(data, ids, now) ==
    IF NotData(data, {"patient_details"}) \/ ~Has(data, "patient_details")
    THEN Error400("Patient details not provided")
    ELSE LET patient_details == data.patient_details IN
         IF patient_details.t # "dict"
         THEN Raise("AttributeError")
         ELSE LET patient_resource ==
                    [resourceType |-> "Patient",
                     id |-> ids.patient,
                     name |-> <<[use |-> "official",
                                 family |-> Get(patient_details, "family_name"),
                                 given |-> <<Get(patient_details, "given_name")>>]>>,
                     birthDate |-> Get(patient_details, "birth_date"),
                     gender |-> get_default(patient_details, "gender", Str("female")),
                     identifier |->
                        <<[use |-> "official",
                           system |-> get_default(patient_details, "identifier_system",
                                                  Str("urn:oid:example-national-id")),
                           value |-> get_default(patient_details, "identifier_value",
                                                 Str(ids.identifier))]>>]
                  episode_resource ==
                    [resourceType |-> "EpisodeOfCare",
                     id |-> ids.episode,
                     status |-> "active",
                     type |-> <<create_codeable_concept(
                                   "http://terminology.hl7.org/CodeSystem/episodeofcare-type",
                                   "hacc", "Home and Community Care", "")>>,
                     patient |-> create_fhir_reference_display("Patient", ids.patient,
                                    <<Get(patient_details, "given_name"), " ",
                                      Get(patient_details, "family_name")>>),
                     managingOrganization |->
                        create_fhir_reference_display("Organization", "org-example",
                                                      <<"WHO Affiliated Clinic">>),
                     period |-> [start |-> now]]
              IN  created([message |-> "Pregnancy registration initiated.",
                           patient |-> patient_resource,
                           episodeOfCare |-> episode_resource,
                           next_steps |->
                             "Consider providing a patient registration questionnaire."])

\* who-mcp.py: register_pregnancy(patient_details)
mcp_register_pregnancy(patient_details, ids, now) ==
    register_pregnancy_logic([body |-> "dict", patient_details |-> patient_details],
                             ids, now)

register_child_logic(data, ids) ==
    IF NotData(data, {"child_details"}) \/ ~Has(data, "child_details")
    THEN Error400("Child details not provided")
    ELSE LET child_details == data.child_details IN
         IF child_details.t # "dict"
         THEN Raise("AttributeError")
         ELSE LET patient_resource ==
                    [resourceType |-> "Patient",
                     id |-> ids.patient,
                     name |-> <<[use |-> "official",
                                 family |-> Get(child_details, "family_name"),
                                 given |-> <<Get(child_details, "given_name")>>]>>,
                     birthDate |-> Get(child_details, "birth_date"),
                     gender |-> Get(child_details, "gender"),
                     identifier |->
                        <<[use |-> "official",
                           system |-> get_default(child_details, "identifier_system",
                                                  Str("urn:oid:example-child-health-id")),
                           value |-> get_default(child_details, "identifier_value",
                                                 Str(ids.identifier))]>>]
              IN  created([message |-> "Child registration successful.",
                           patient |-> patient_resource])

\* who-mcp.py: register_child(child_details)
mcp_register_child(child_details, ids) ==
    register_child_logic([body |-> "dict", child_details |-> child_details], ids)

\* the three questionnaires: the resource itself, item by its group linkIds
get_patient_registration_questionnaire_logic(now) ==
    Return([resourceType |-> "Questionnaire",
            id |-> "anc-patient-reg-q1",
            status |-> "draft",
            title |-> "Antenatal Care Patient Registration",
            date |-> now,
            url |-> <<SERVER_BASE_URL, "/anc/questionnaire/patient-registration">>,
            item |-> <<"1", "2", "3">>])

get_anc_visit_questionnaire_logic(now) ==
    Return([resourceType |-> "Questionnaire",
            id |-> "anc-visit-q1",
            status |-> "draft",
            title |-> "Standard Antenatal Care Visit",
            date |-> now,
            url |-> <<SERVER_BASE_URL, "/anc/visit/questionnaire">>,
            item |-> <<"1", "2", "3">>])

get_child_health_screening_questionnaire_logic(now) ==
    Return([resourceType |-> "Questionnaire",
            id |-> "child-health-screening-q1",
            status |-> "draft",
            title |-> "Child Health Screening (Danger Signs)",
            date |-> now,
            url |-> <<SERVER_BASE_URL, "/child/health-screening/questionnaire">>,
            item |-> <<"1", "2", "3", "4">>])

\* who-mcp.py: the questionnaire resources
mcp_get_patient_registration_questionnaire(now) ==
    get_patient_registration_questionnaire_logic(now)

mcp_get_anc_visit_questionnaire(now) == get_anc_visit_questionnaire_logic(now)

mcp_get_child_health_screening_questionnaire(now) ==
    get_child_health_screening_questionnaire_logic(now)

(***************************************************************************)
(* main.py: the HTTP handlers.  jsonify(body) alone is a response with     *)
(* status 200; jsonify(body), n is a response with status n.               *)
(***************************************************************************)
\* POST /anc/calculate-edd
http_calculate_edd(data) ==
    IF NotData(data, {"lmp_date"}) \/ ~Has(data, "lmp_date")
    THEN Response([error |-> "LMP date not provided"], 400)
    ELSE LET lmp_date_str == data.lmp_date IN
         IF ~strptime_ok(lmp_date_str)
         THEN IF strptime_exc(lmp_date_str) = "ValueError"
              THEN Response([error |-> "Invalid LMP date format. Use YYYY-MM-DD."], 400)
              ELSE Raise(strptime_exc(lmp_date_str))
         ELSE LET lmp_date == strptime(lmp_date_str)
                  edd_date == plus_days(lmp_date, 280)
              IN  Response([lmp_date |-> lmp_date_str,
                            estimated_delivery_date |-> strftime(edd_date),
                            calculation_method |-> "Naegele's Rule (LMP + 280 days)"],
                           200)

\* GET /anc/questionnaire/patient-registration: with fhir.resources the
\* questionnaire carries the date, the url and three groups; the fallback is
\* three items without a date
http_get_patient_registration_questionnaire(fhir_available, now) ==
    IF fhir_available
    THEN Response([resourceType |-> "Questionnaire",
                   id |-> "anc-patient-reg-q1",
                   status |-> "draft",
                   title |-> "Antenatal Care Patient Registration",
                   date |-> now,
                   url |-> <<SERVER_BASE_URL, "/anc/questionnaire/patient-registration">>,
                   item |-> <<"1", "2", "3">>], 200)
    ELSE Response([resourceType |-> "Questionnaire",
                   id |-> "anc-patient-reg-q1",
                   status |-> "draft",
                   title |-> "Antenatal Care Patient Registration",
                   item |-> <<"1.1", "1.2", "1.3", "3.1">>], 200)

\* a bug to compare with: a month of four weeks
http_fractional_month_days_28(age_months) == ((age_months % 10) * 28) \div 10

\* int((item['age_months'] % 1) * 30)
http_fractional_month_days(age_months) == ((age_months % 10) * 30) \div 10

\* vaccine_date of one row of the plan
http_vaccine_date(dob, age_months) ==
    plus_relativedelta(dob, full_months(age_months), http_fractional_month_days(age_months))

http_immunization_activity(dob, item) ==
    LET date == http_vaccine_date(dob, item.age_months)
    IN  [detail |->
          [kind |-> "ImmunizationRecommendation",
           status |-> "scheduled",
           description |-> <<item.vaccine, " - ", item.dose>>,
           scheduledPeriod |-> [start |-> isoformat(date),
                                end |-> isoformat(plus_days(date, 7))]]]

http_immunization_activities(dob) ==
    [i \in 1..Len(immunization_plan) |->
        http_immunization_activity(dob, immunization_plan[i])]

\* POST /child/immunization-schedule
http_get_immunization_schedule(data) ==
    IF NotData(data, {"dob", "patient_id"}) \/ ~Has(data, "dob") \/ ~Has(data, "patient_id")
    THEN Response([error |-> "Date of Birth (dob) and patient_id are required"], 400)
    ELSE LET dob_str == data.dob IN
         IF ~strptime_ok(dob_str)
         THEN IF strptime_exc(dob_str) = "ValueError"
              THEN Response([error |-> "Invalid DOB format. Use YYYY-MM-DD."], 400)
              ELSE Raise(strptime_exc(dob_str))
         ELSE LET dob == strptime(dob_str)
                  patient_id == data.patient_id
              IN  Response([resourceType |-> "CarePlan",
                            status |-> "active",
                            intent |-> "order",
                            title |-> "Child Immunization Schedule",
                            subject |-> create_fhir_reference("Patient", patient_id),
                            activity |-> http_immunization_activities(dob),
                            instantiatesCanonical |->
                                <<"http://who.int/smart-guidelines/immunization/child">>],
                           200)

(***************************************************************************)
(* The civil calendar, counted day by day within a month and month by      *)
(* month: the reference the date arithmetic of the code is compared with.  *)
(***************************************************************************)
CalLeap(y) == (y % 4 = 0 /\ y % 100 # 0) \/ y % 400 = 0

CalMonthDays(y, m) ==
    CASE m \in {4, 6, 9, 11} -> 30
      [] m = 2 -> IF CalLeap(y) THEN 29 ELSE 28
      [] OTHER -> 31

CalNextMonthFirst(dt) ==
    IF dt.m = 12 THEN Date(dt.y + 1, 1, 1) ELSE Date(dt.y, dt.m + 1, 1)

CalPrevMonthLast(dt) ==
    IF dt.m = 1 THEN Date(dt.y - 1, 12, 31)
    ELSE Date(dt.y, dt.m - 1, CalMonthDays(dt.y, dt.m - 1))

RECURSIVE CalAddDays(_, _)
\* the calendar date n days after dt (before, when n < 0)
CalAddDays(dt, n) ==
    IF n >= 0
    THEN IF dt.d + n <= CalMonthDays(dt.y, dt.m)
         THEN Date(dt.y, dt.m, dt.d + n)
         ELSE CalAddDays(CalNextMonthFirst(dt),
                         n - (CalMonthDays(dt.y, dt.m) - dt.d + 1))
    ELSE IF dt.d + n >= 1
         THEN Date(dt.y, dt.m, dt.d + n)
         ELSE CalAddDays(CalPrevMonthLast(dt), n + dt.d)

\* dt is a day of the calendar
CalValid(dt) == dt.m \in 1..12 /\ dt.d \in 1..CalMonthDays(dt.y, dt.m)

(***************************************************************************)
(* Inputs.                                                                 *)
(***************************************************************************)
\* texts Y-M-D, the months 0 and 13 and the days 0 and 32 included
DateTexts ==
    { DateStr(y, m, d, pad) : y \in Years, m \in 0..13, d \in 0..32, pad \in BOOLEAN }

\* what a caller can put in a date field
DateValues ==
    DateTexts \cup { DateOther("none"), DateOther("int"), DateOther("emptystr"),
                     DateOther("badstr") }

\* zero-padded texts only
PaddedTexts == { v \in DateTexts : v.pad }

\* a date field that need not hold a date
PaddedValues ==
    PaddedTexts \cup { DateOther("none"), DateOther("int"), DateOther("emptystr"),
                       DateOther("badstr"), DateStr(FirstYear, 3, 7, FALSE) }

\* the second anchor beside a first one: missing, null, empty, malformed or a date
OtherAnchors ==
    { DateOther("absent"), DateOther("none"), DateOther("emptystr"),
      DateOther("badstr"), DateStr(FirstYear, 1, 1, TRUE) }

PatientIds == { Absent, None, Str("patient-1") }

ScheduleBodies ==
    { [body |-> "dict", lmp_date |-> l, edd_date |-> e, patient_id |-> Str("patient-1")] :
        l \in PaddedValues, e \in OtherAnchors }
    \cup
    { [body |-> "dict", lmp_date |-> l, edd_date |-> e, patient_id |-> Str("patient-1")] :
        l \in OtherAnchors, e \in PaddedValues }
    \cup
    { [body |-> "dict", lmp_date |-> l, edd_date |-> e, patient_id |-> p] :
        l \in OtherAnchors, e \in OtherAnchors, p \in PatientIds }
    \cup
    { [body |-> "none", lmp_date |-> DateOther("absent"),
       edd_date |-> DateOther("absent"), patient_id |-> Absent] }

\* what the tool surface passes on: every key is there, None where omitted
NoneFor(v) == IF v.t = "absent" THEN [v EXCEPT !.t = "none"] ELSE v

ImmunizationBodies ==
    { [body |-> "dict", dob |-> v, patient_id |-> p] :
        v \in PaddedValues \cup {DateOther("absent")}, p \in PatientIds }
    \cup { [body |-> "none", dob |-> DateOther("absent"), patient_id |-> Absent] }

\* blood-pressure readings: missing, null, numbers around the thresholds,
\* numerals in a string, strings that are no numeral, the empty string
BpValues ==
    { Absent, None, EmptyStr, BadStr, NumStr(80), NumStr(150) }
    \cup { PyInt(n) : n \in {0, 80, 89, 90, 139, 140, 150} }

VitalsValues ==
    { [t |-> "absent", bp_systolic |-> Absent, bp_diastolic |-> Absent],
      [t |-> "none", bp_systolic |-> Absent, bp_diastolic |-> Absent] }
    \cup { [t |-> "dict", bp_systolic |-> s, bp_diastolic |-> d] :
             s \in BpValues, d \in BpValues }

BleedingValues ==
    { Absent, None, PyBool(TRUE), PyBool(FALSE), PyInt(1), NumStr(1), BadStr }

SymptomsValues ==
    { [t |-> "absent", bleeding |-> Absent], [t |-> "none", bleeding |-> Absent] }
    \cup { [t |-> "dict", bleeding |-> b] : b \in BleedingValues }

\* the order in which the keys of an analyze body were inserted (a key that is
\* not there is skipped)
KeyOrders ==
    { <<"vitals", "symptoms", "patient_id">>, <<"symptoms", "vitals", "patient_id">>,
      <<"patient_id", "symptoms", "vitals">> }

AnalyzeBodies ==
    { [body |-> "dict", key_order |-> k, vitals |-> v, symptoms |-> s,
       patient_id |-> Str("patient-1")] :
        k \in KeyOrders, v \in VitalsValues, s \in SymptomsValues }
    \cup { [body |-> "none", key_order |-> <<>>,
            vitals |-> [t |-> "absent", bp_systolic |-> Absent,
                        bp_diastolic |-> Absent],
            symptoms |-> [t |-> "absent", bleeding |-> Absent], patient_id |-> Absent] }

\* ages in days at the measurement: the day before birth, the day of birth,
\* 16 months to the day (487 days) and the days around 6, 24 and 60 months
AgeSamples == {-1, 0, 100, 182, 183, 487, 730, 731, 1826, 1827}

WeightSamples == {1, 2, 3, 5, 10, 14, 15, 16, 25, 26, 33}

HeightSamples == {-1, 0, 49, 50, 51, 66, 100, 112}

GrowthDobs == { Date(FirstYear, 1, 15), Date(FirstYear + 1, 2, 28) }

\* well-typed measurements over the grid of ages, weights and heights
GrowthGrid ==
    { [body |-> "dict", dob |-> strftime(b),
       measurement_date |-> strftime(CalAddDays(b, a)),
       weight_kg |-> PyInt(w), height_cm |-> PyInt(h),
       gender |-> Str("male"), patient_id |-> Str("patient-1")] :
        b \in GrowthDobs, a \in AgeSamples, w \in WeightSamples, h \in HeightSamples }

GenderValues ==
    { Absent, None, PyInt(1), Str("male"), Str("Male"), Str("FEMALE"), Str("other") }

\* fields that are missing, null or of the wrong type
GrowthOdd ==
    { [body |-> "dict", dob |-> b, measurement_date |-> m, weight_kg |-> w,
       height_cm |-> h, gender |-> g, patient_id |-> p] :
        b \in { DateOther("absent"), DateOther("none"), DateOther("int"),
                DateOther("badstr"), DateStr(FirstYear, 1, 15, TRUE) },
        m \in { DateOther("absent"), DateStr(FirstYear, 2, 30, TRUE),
                DateStr(FirstYear, 1, 1, TRUE), DateStr(FirstYear, 7, 1, TRUE) },
        w \in { Absent, None, BadStr, NumStr(3), PyInt(3) },
        h \in { Absent, None, EmptyStr, PyInt(50) },
        g \in GenderValues,
        p \in { Absent, Str("patient-1") } }

\* heights whose square is no double, on the day of birth and at two years
GrowthExtreme ==
    { [body |-> "dict", dob |-> strftime(b),
       measurement_date |-> strftime(CalAddDays(b, a)),
       weight_kg |-> PyInt(3), height_cm |-> PyFloat(mag),
       gender |-> Str("female"), patient_id |-> Str("patient-1")] :
        b \in GrowthDobs, a \in {-1, 0, 731}, mag \in {"tiny", "huge"} }

GrowthBodies ==
    GrowthGrid \cup GrowthOdd \cup GrowthExtreme
    \cup { [body |-> "none", dob |-> DateOther("absent"),
            measurement_date |-> DateOther("absent"), weight_kg |-> Absent,
            height_cm |-> Absent, gender |-> Absent, patient_id |-> Absent] }

EddBodies ==
    { [body |-> "dict", lmp_date |-> v] : v \in DateValues \cup {DateOther("absent")} }
      \cup { [body |-> "none", lmp_date |-> DateOther("absent")] }

\* what create_fhir_id() hands out during one call, and what the clock reads
IdDraws ==
    { [patient |-> "uuid-1", episode |-> "uuid-2", identifier |-> "uuid-3"],
      [patient |-> "uuid-4", episode |-> "uuid-5", identifier |-> "uuid-6"] }

Instants == { "2024-01-01T00:00:00.000001", "2024-01-01T00:00:00.000002" }

\* patient_details / child_details: a dictionary, or something that is none
DetailsValues ==
    { [t |-> "dict", given_name |-> g, family_name |-> Str("Diallo"),
       birth_date |-> b, gender |-> s, identifier_system |-> Absent,
       identifier_value |-> v] :
        g \in { Absent, Str("Amina") },
        b \in { Absent, Str("1995-04-02") },
        s \in { Absent, Str("other") },
        v \in { Absent, Str("N-1") } }
    \cup { Absent, None, BadStr }

RegisterPregnancyBodies ==
    { [body |-> "dict", patient_details |-> d] : d \in DetailsValues }
    \cup { [body |-> "none", patient_details |-> Absent] }

RegisterChildBodies ==
    { [body |-> "dict", child_details |-> d] : d \in DetailsValues }
    \cup { [body |-> "none", child_details |-> Absent] }

(***************************************************************************)
(* The state machine.                                                      *)
(***************************************************************************)
NoValue == [t |-> "absent"]

\* the callers whose calls may be in flight at once
NumCallers == 2

Callers == 1..NumCallers

\* who_logic.py: the names bound when the module is imported
ModuleAtImport ==
    [FHIR_RESOURCES_AVAILABLE |-> FALSE,
     WHO_SMART_GUIDELINES_URL_BASE |-> "http://who.int/smart-guidelines/",
     SERVER_BASE_URL |-> SERVER_BASE_URL]

\* no call in flight: the caller has no frame
NoFrame ==
    [pc |-> "idle", fn |-> "none", data |-> NoValue, risks_identified |-> <<>>,
     recommendations |-> <<>>, result |-> NoValue]

Init ==
    /\ pc = "idle"
    /\ op = "none"
    /\ req = NoValue
    /\ res = NoValue
    /\ frames = [c \in Callers |-> NoFrame]
    /\ globals = ModuleAtImport

Idle == pc = "idle"

Call(name, input, outcome) ==
    /\ pc' = "done"
    /\ op' = name
    /\ req' = input
    /\ res' = outcome
    /\ UNCHANGED <<frames, globals>>

\* the logic layer called directly with a body
LogicCalculateEdd ==
    /\ Idle
    /\ \E data \in EddBodies : Call("calculate_edd_logic", data, calculate_edd_logic(data))

\* the tool surface
McpCalculateEdd ==
    /\ Idle
    /\ \E v \in DateValues :
        Call("mcp.calculate_edd", [lmp_date |-> v], mcp_calculate_edd(v))

LogicScheduleAncVisits ==
    /\ Idle
    /\ \E data \in ScheduleBodies :
        Call("schedule_anc_visits_logic", data, schedule_anc_visits_logic(data))

McpScheduleAncVisits ==
    /\ Idle
    /\ \E data \in { b \in ScheduleBodies : b.body = "dict" } :
        LET l == NoneFor(data.lmp_date)
            e == NoneFor(data.edd_date)
            p == NoneFor(data.patient_id)
        IN  Call("mcp.schedule_anc_visits",
                 [lmp_date |-> l, edd_date |-> e, patient_id |-> p],
                 mcp_schedule_anc_visits(l, e, p))

LogicAnalyzeAncVisitData ==
    /\ Idle
    /\ \E data \in AnalyzeBodies :
        Call("analyze_anc_visit_data_logic", data, analyze_anc_visit_data_logic(data))

McpAnalyzeAncVisitData ==
    /\ Idle
    /\ \E data \in { b \in AnalyzeBodies :
                        b.body = "dict" /\ b.key_order[1] = "vitals" } :
        LET v == NoneFor(data.vitals)
            s == NoneFor(data.symptoms)
            p == NoneFor(data.patient_id)
        IN  Call("mcp.analyze_anc_visit_data",
                 [vitals |-> v, symptoms |-> s, patient_id |-> p],
                 mcp_analyze_anc_visit_data(v, s, p))

LogicGetImmunizationSchedule ==
    /\ Idle
    /\ \E data \in ImmunizationBodies :
        Call("get_immunization_schedule_logic", data,
             get_immunization_schedule_logic(data))

McpGetImmunizationSchedule ==
    /\ Idle
    /\ \E data \in { b \in ImmunizationBodies :
                        b.body = "dict" /\ Has(b, "dob") /\ Has(b, "patient_id") } :
        Call("mcp.get_immunization_schedule",
             [dob |-> data.dob, patient_id |-> data.patient_id],
             mcp_get_immunization_schedule(data.dob, data.patient_id))

LogicGrowthMonitoring ==
    /\ Idle
    /\ \E data \in GrowthBodies :
        Call("growth_monitoring_logic", data, growth_monitoring_logic(data))

McpGrowthMonitoring ==
    /\ Idle
    /\ \E data \in { b \in GrowthBodies : b.body = "dict" /\ missing_fields(b) = <<>> } :
        Call("mcp.growth_monitoring", [data EXCEPT !.body = "params"],
             mcp_growth_monitoring(data.dob, data.measurement_date, data.weight_kg,
                                   data.height_cm, data.gender, data.patient_id))

\* POST /child/growth-monitoring, served by a process whose import of
\* fhir.resources succeeded (fhir_available) or failed
HttpGrowthMonitoring ==
    /\ Idle
    /\ \E data \in GrowthBodies, fhir_available \in BOOLEAN :
        Call("http.growth_monitoring",
             [data |-> data, FHIR_RESOURCES_AVAILABLE |-> fhir_available],
             http_growth_monitoring(data, fhir_available))

\* resource who://info of the tool surface
McpApiInfo ==
    /\ Idle
    /\ Call("mcp.api_info", NoValue, mcp_api_info)

LogicRegisterPregnancy ==
    /\ Idle
    /\ \E data \in RegisterPregnancyBodies, ids \in IdDraws, now \in Instants :
        Call("register_pregnancy_logic", [data |-> data, ids |-> ids, now |-> now],
             register_pregnancy_logic(data, ids, now))

McpRegisterPregnancy ==
    /\ Idle
    /\ \E d \in DetailsValues \ {Absent}, ids \in IdDraws, now \in Instants :
        Call("mcp.register_pregnancy",
             [data |-> [patient_details |-> d], ids |-> ids, now |-> now],
             mcp_register_pregnancy(d, ids, now))

LogicRegisterChild ==
    /\ Idle
    /\ \E data \in RegisterChildBodies, ids \in IdDraws :
        Call("register_child_logic", [data |-> data, ids |-> ids],
             register_child_logic(data, ids))

McpRegisterChild ==
    /\ Idle
    /\ \E d \in DetailsValues \ {Absent}, ids \in IdDraws :
        Call("mcp.register_child", [data |-> [child_details |-> d], ids |-> ids],
             mcp_register_child(d, ids))

LogicGetPatientRegistrationQuestionnaire ==
    /\ Idle
    /\ \E now \in Instants :
        Call("get_patient_registration_questionnaire_logic", [now |-> now],
             get_patient_registration_questionnaire_logic(now))

McpGetPatientRegistrationQuestionnaire ==
    /\ Idle
    /\ \E now \in Instants :
        Call("mcp.get_patient_registration_questionnaire", [now |-> now],
             mcp_get_patient_registration_questionnaire(now))

LogicGetAncVisitQuestionnaire ==
    /\ Idle
    /\ \E now \in Instants :
        Call("get_anc_visit_questionnaire_logic", [now |-> now],
             get_anc_visit_questionnaire_logic(now))

McpGetAncVisitQuestionnaire ==
    /\ Idle
    /\ \E now \in Instants :
        Call("mcp.get_anc_visit_questionnaire", [now |-> now],
             mcp_get_anc_visit_questionnaire(now))

LogicGetChildHealthScreeningQuestionnaire ==
    /\ Idle
    /\ \E now \in Instants :
        Call("get_child_health_screening_questionnaire_logic", [now |-> now],
             get_child_health_screening_questionnaire_logic(now))

McpGetChildHealthScreeningQuestionnaire ==
    /\ Idle
    /\ \E now \in Instants :
        Call("mcp.get_child_health_screening_questionnaire", [now |-> now],
             mcp_get_child_health_screening_questionnaire(now))

\* the HTTP surface
HttpCalculateEdd ==
    /\ Idle
    /\ \E data \in EddBodies : Call("http.calculate_edd", data, http_calculate_edd(data))

HttpGetPatientRegistrationQuestionnaire ==
    /\ Idle
    /\ \E fhir_available \in BOOLEAN, now \in Instants :
        Call("http.get_patient_registration_questionnaire",
             [FHIR_RESOURCES_AVAILABLE |-> fhir_available, now |-> now],
             http_get_patient_registration_questionnaire(fhir_available, now))

HttpGetImmunizationSchedule ==
    /\ Idle
    /\ \E data \in ImmunizationBodies :
        Call("http.get_immunization_schedule", data,
             http_get_immunization_schedule(data))

\* the caller takes the outcome; nothing of the call is kept
Respond ==
    /\ pc = "done"
    /\ pc' = "idle"
    /\ op' = "none"
    /\ req' = NoValue
    /\ res' = NoValue
    /\ UNCHANGED <<frames, globals>>

Next ==
    \/ LogicCalculateEdd
    \/ McpCalculateEdd
    \/ LogicScheduleAncVisits
    \/ McpScheduleAncVisits
    \/ LogicAnalyzeAncVisitData
    \/ McpAnalyzeAncVisitData
    \/ LogicGetImmunizationSchedule
    \/ McpGetImmunizationSchedule
    \/ LogicGrowthMonitoring
    \/ McpGrowthMonitoring
    \/ HttpGrowthMonitoring
    \/ McpApiInfo
    \/ LogicRegisterPregnancy
    \/ McpRegisterPregnancy
    \/ LogicRegisterChild
    \/ McpRegisterChild
    \/ LogicGetPatientRegistrationQuestionnaire
    \/ McpGetPatientRegistrationQuestionnaire
    \/ LogicGetAncVisitQuestionnaire
    \/ McpGetAncVisitQuestionnaire
    \/ LogicGetChildHealthScreeningQuestionnaire
    \/ McpGetChildHealthScreeningQuestionnaire
    \/ HttpCalculateEdd
    \/ HttpGetPatientRegistrationQuestionnaire
    \/ HttpGetImmunizationSchedule
    \/ Respond

Spec == Init /\ [][Next]_vars

(***************************************************************************)
(* Several callers at once.  Each caller's call has its own frame; a step  *)
(* of one call is one statement group of the function, and the steps of    *)
(* different calls interleave in any order.                                *)
(***************************************************************************)
\* the bodies the concurrent callers send
ConcurrentAnalyzeBodies ==
    { [body |-> "dict", key_order |-> <<"vitals", "symptoms", "patient_id">>,
       vitals |-> v, symptoms |-> s, patient_id |-> Str("patient-1")] :
        v \in { [t |-> "none", bp_systolic |-> Absent, bp_diastolic |-> Absent],
                [t |-> "dict", bp_systolic |-> PyInt(150), bp_diastolic |-> PyInt(80)],
                [t |-> "dict", bp_systolic |-> PyInt(80), bp_diastolic |-> BadStr] },
        s \in { [t |-> "absent", bleeding |-> Absent],
                [t |-> "dict", bleeding |-> PyBool(TRUE)] } }

ConcurrentEddBodies ==
    { [body |-> "dict", lmp_date |-> v] :
        v \in { DateStr(FirstYear, 1, 31, TRUE), DateStr(FirstYear, 2, 30, TRUE),
                DateOther("none") } }

ConcurrentGrowthBodies ==
    { [body |-> "dict", dob |-> DateStr(FirstYear, 1, 15, TRUE),
       measurement_date |-> m, weight_kg |-> PyInt(3), height_cm |-> PyInt(50),
       gender |-> Str("female"), patient_id |-> Str("patient-1")] :
        m \in { DateStr(FirstYear, 1, 14, TRUE), DateStr(FirstYear, 7, 1, TRUE) } }

\* a bug to compare with: the list is bound once for all calls, so a call
\* starts from what another call in flight has put in it
shared_list(fs, c, name) == fs[CHOOSE o \in Callers : o # c][name]

\* risks_identified = [] and recommendations = []: a new list for each call
new_list(fs, c, name) == <<>>

\* the function is entered: its two lists are bound
AnalyzeEnter(c) ==
    /\ frames[c].pc = "idle"
    /\ \E data \in ConcurrentAnalyzeBodies :
        frames' = [frames EXCEPT ![c] =
                      [pc |-> "bp", fn |-> "analyze_anc_visit_data_logic",
                       data |-> data,
                       risks_identified |-> new_list(frames, c, "risks_identified"),
                       recommendations |-> new_list(frames, c, "recommendations"),
                       result |-> NoValue]]
    /\ UNCHANGED <<pc, op, req, res, globals>>

\* the readings are fetched and the blood-pressure check runs
AnalyzeBpCheck(c) ==
    /\ frames[c].pc = "bp"
    /\ LET f == frames[c]
           hit == bp_check(get_get(f.data, "vitals", "bp_systolic"),
                           get_get(f.data, "vitals", "bp_diastolic"))
       IN  frames' = [frames EXCEPT ![c] =
              IF get_get_fails(f.data, "vitals")
              THEN [f EXCEPT !.pc = "done", !.result = Raise("AttributeError")]
              ELSE IF hit
              THEN [f EXCEPT !.pc = "bleeding",
                             !.risks_identified = Append(@, HIGH_BP_RISK),
                             !.recommendations = Append(@, HIGH_BP_RECOMMENDATION)]
              ELSE [f EXCEPT !.pc = "bleeding"]]
    /\ UNCHANGED <<pc, op, req, res, globals>>

\* bleeding is fetched and the bleeding check runs
AnalyzeBleedingCheck(c) ==
    /\ frames[c].pc = "bleeding"
    /\ LET f == frames[c]
           hit == bleeding_check(get_get(f.data, "symptoms", "bleeding"))
       IN  frames' = [frames EXCEPT ![c] =
              IF get_get_fails(f.data, "symptoms")
              THEN [f EXCEPT !.pc = "done", !.result = Raise("AttributeError")]
              ELSE IF hit
              THEN [f EXCEPT !.pc = "norisk",
                             !.risks_identified = Append(@, BLEEDING_RISK),
                             !.recommendations = Append(@, BLEEDING_RECOMMENDATION)]
              ELSE [f EXCEPT !.pc = "norisk"]]
    /\ UNCHANGED <<pc, op, req, res, globals>>

\* if not risks_identified: the synthetic entry
AnalyzeNoRisk(c) ==
    /\ frames[c].pc = "norisk"
    /\ LET f == frames[c]
       IN  frames' = [frames EXCEPT ![c] =
              IF f.risks_identified = <<>>
              THEN [f EXCEPT !.pc = "return",
                             !.risks_identified = Append(@, NO_RISK),
                             !.recommendations = Append(@, NO_RISK_RECOMMENDATION)]
              ELSE [f EXCEPT !.pc = "return"]]
    /\ UNCHANGED <<pc, op, req, res, globals>>

\* f"{WHO_SMART_GUIDELINES_URL_BASE}anc/risk-assessment"
risk_assessment_reference(base) ==
    IF base = "http://who.int/smart-guidelines/"
    THEN "http://who.int/smart-guidelines/anc/risk-assessment"
    ELSE "anc/risk-assessment"

\* the result is built from the two lists and the module's base URL
AnalyzeReturn(c) ==
    /\ frames[c].pc = "return"
    /\ LET f == frames[c]
       IN  frames' = [frames EXCEPT ![c] =
              [f EXCEPT !.pc = "done",
                        !.result =
                            Return([analysis_summary |-> "ANC visit data analyzed.",
                                    risks_identified |-> f.risks_identified,
                                    recommendations |-> f.recommendations,
                                    guideline_reference |->
                                        risk_assessment_reference(
                                            globals.WHO_SMART_GUIDELINES_URL_BASE)])]]
    /\ UNCHANGED <<pc, op, req, res, globals>>

\* calculate_edd_logic and growth_monitoring_logic of a concurrent caller:
\* they bind local names only, so the call is one step
ConcurrentCalculateEdd(c) ==
    /\ frames[c].pc = "idle"
    /\ \E data \in ConcurrentEddBodies :
        frames' = [frames EXCEPT ![c] =
                      [NoFrame EXCEPT !.pc = "done", !.fn = "calculate_edd_logic",
                                      !.data = data,
                                      !.result = calculate_edd_logic(data)]]
    /\ UNCHANGED <<pc, op, req, res, globals>>

ConcurrentGrowthMonitoring(c) ==
    /\ frames[c].pc = "idle"
    /\ \E data \in ConcurrentGrowthBodies :
        frames' = [frames EXCEPT ![c] =
                      [NoFrame EXCEPT !.pc = "done", !.fn = "growth_monitoring_logic",
                                      !.data = data,
                                      !.result = growth_monitoring_logic(data)]]
    /\ UNCHANGED <<pc, op, req, res, globals>>

\* the caller takes the result and the frame is gone
ConcurrentCollect(c) ==
    /\ frames[c].pc = "done"
    /\ frames' = [frames EXCEPT ![c] = NoFrame]
    /\ UNCHANGED <<pc, op, req, res, globals>>

NextConcurrent ==
    \E c \in Callers :
        \/ AnalyzeEnter(c)
        \/ AnalyzeBpCheck(c)
        \/ AnalyzeBleedingCheck(c)
        \/ AnalyzeNoRisk(c)
        \/ AnalyzeReturn(c)
        \/ ConcurrentCalculateEdd(c)
        \/ ConcurrentGrowthMonitoring(c)
        \/ ConcurrentCollect(c)

SpecConcurrent == Init /\ [][NextConcurrent]_vars

(***************************************************************************)
(* What the claims speak of.                                               *)
(***************************************************************************)
Done == pc = "done"

GrowthToolOps == {"growth_monitoring_logic", "mcp.growth_monitoring"}
AnalyzeOps == {"analyze_anc_visit_data_logic", "mcp.analyze_anc_visit_data"}
EddOps == {"calculate_edd_logic", "mcp.calculate_edd"}
ScheduleOps == {"schedule_anc_visits_logic", "mcp.schedule_anc_visits"}
ImmunizationOps == {"get_immunization_schedule_logic", "mcp.get_immunization_schedule"}

\* the text v is a date of the calendar, written YYYY-MM-DD or Y-M-D
ValidDateText(v) == v.t = "datestr" /\ CalValid(Date(v.y, v.m, v.d))

\* the calendar date a valid text names
DateOf(v) == Date(v.y, v.m, v.d)

\* the text YYYY-MM-DD of a calendar date
TextOf(dt) == DateStr(dt.y, dt.m, dt.d, TRUE)

\* the calendar date of a timestamp YYYY-MM-DDT00:00:00
DayOf(stamp) == Date(stamp.y, stamp.m, stamp.d)

\* a field the caller did not supply: missing or null
NotSupplied(v) == v.t \in {"absent", "none"}

\* the interpretation codes of a successful growth result, in order
CodesOf(r) ==
    [i \in 1..Len(r.body.fhir_observations) |->
        interpretation_code_of(r.body.fhir_observations[i])]

\* how many entries of a sequence satisfy Test
Count(seq, Test(_)) == Cardinality({ i \in 1..Len(seq) : Test(seq[i]) })

IsHighBpFlag(risk) == "risk_code" \in DOMAIN risk /\ risk.risk_code = "ANC_HIGH_BP"

\* accept or reject or crash
OutcomeClass(r) ==
    IF IsRaise(r) THEN "raise" ELSE IF IsError(r) THEN "error" ELSE "success"

(***************************************************************************)
(* C1.  growth_monitoring: the overall note is the 'appears normal' text   *)
(* exactly when all three interpretation codes are N, and the 'Further     *)
(* assessment needed' text whenever one of them is L, H or IE.             *)
(***************************************************************************)
C1_NoteFollowsCodes ==
    (Done /\ op \in GrowthToolOps /\ IsSuccess(res)) =>
        LET codes == CodesOf(res)
            allN  == \A i \in 1..Len(codes) : codes[i] = "N"
        IN  /\ Len(codes) = 3
            /\ allN => res.body.overall_health_status_note = NOTE_NORMAL
            /\ ~allN => res.body.overall_health_status_note = NOTE_ASSESS

(***************************************************************************)
(* C2.  analyze_anc_visit_data: a numeric systolic reading >= 140 or a     *)
(* numeric diastolic reading >= 90 gives exactly one ANC_HIGH_BP flag of   *)
(* severity high, also when the other reading is missing or 0; two numeric *)
(* readings below their thresholds give no ANC_HIGH_BP flag.               *)
(***************************************************************************)
C2_HighBpFlag ==
    (Done /\ op = "analyze_anc_visit_data_logic" /\ req.body = "dict"
          /\ req.vitals.t = "dict" /\ req.symptoms.t # "none") =>
        LET s == req.vitals.bp_systolic
            d == req.vitals.bp_diastolic
            high == (s.t = "int" /\ s.n >= 140) \/ (d.t = "int" /\ d.n >= 90)
            low  == s.t = "int" /\ d.t = "int" /\ s.n < 140 /\ d.n < 90
        IN  /\ IsSuccess(res)
            /\ high => /\ Count(res.body.risks_identified, IsHighBpFlag) = 1
                       /\ \A i \in 1..Len(res.body.risks_identified) :
                            IsHighBpFlag(res.body.risks_identified[i]) =>
                                res.body.risks_identified[i].severity = "high"
            /\ low => Count(res.body.risks_identified, IsHighBpFlag) = 0

(***************************************************************************)
(* C3.  The analyze_anc_visit_data tool called with vitals and symptoms    *)
(* omitted does not fail and returns what the logic layer returns for an   *)
(* input without these keys: one low-severity 'no risk' flag and one       *)
(* generic recommendation.                                                 *)
(***************************************************************************)
C3_ToolDefaultsAsNoKeys ==
    (Done /\ op = "mcp.analyze_anc_visit_data"
          /\ req.vitals.t = "none" /\ req.symptoms.t = "none") =>
        /\ IsSuccess(res)
        /\ res = analyze_anc_visit_data_logic(
                    [body |-> "dict",
                     vitals |-> [req.vitals EXCEPT !.t = "absent"],
                     symptoms |-> [req.symptoms EXCEPT !.t = "absent"],
                     patient_id |-> req.patient_id])
        /\ res.body.risks_identified = <<NO_RISK>>
        /\ res.body.recommendations = <<NO_RISK_RECOMMENDATION>>

(***************************************************************************)
(* C4.  The HTTP growth-monitoring endpoint and the growth_monitoring tool *)
(* give the same outcome for the same input: the same accept/reject        *)
(* decision and, on success, the same three interpretation codes and the   *)
(* same overall note.                                                      *)
(***************************************************************************)
C4_HttpAndToolAgree ==
    (Done /\ op = "http.growth_monitoring" /\ req.data.body = "dict"
          /\ missing_fields(req.data) = <<>>) =>
        LET d    == req.data
            tool == mcp_growth_monitoring(d.dob, d.measurement_date, d.weight_kg,
                                          d.height_cm, d.gender, d.patient_id)
        IN  /\ OutcomeClass(res) = OutcomeClass(tool)
            /\ IsSuccess(res) =>
                  /\ CodesOf(res) = CodesOf(tool)
                  /\ res.body.overall_health_status_note =
                        tool.body.overall_health_status_note

(***************************************************************************)
(* C5.  The API-info lookup of the tool surface (who://info) returns the   *)
(* summary dictionary of the logic layer on every call.                    *)
(***************************************************************************)
C5_ApiInfoReturnsSummary ==
    (Done /\ op = "mcp.api_info") =>
        /\ IsSuccess(res)
        /\ res = get_api_info_logic

(***************************************************************************)
(* C6.  No operation ends in an unhandled exception: every call returns a  *)
(* success result or a structured error result, whatever the input.        *)
(***************************************************************************)
C6_NoUnhandledException == Done => ~IsRaise(res)

(***************************************************************************)
(* C7.  calculate_edd: for every valid LMP date D the result holds the     *)
(* calendar date D + 280 days as estimated_delivery_date and the lmp_date  *)
(* it was given, unchanged.                                                *)
(***************************************************************************)
C7_EddIsLmpPlus280 ==
    (Done /\ op \in EddOps /\ ValidDateText(req.lmp_date)) =>
        /\ IsSuccess(res)
        /\ res.body.estimated_delivery_date = TextOf(CalAddDays(DateOf(req.lmp_date), 280))
        /\ res.body.lmp_date = req.lmp_date

\* a date written without zero padding whose EDD falls in the next year
C7_Witness ==
    /\ Done /\ op = "mcp.calculate_edd"
    /\ ValidDateText(req.lmp_date)
    /\ ~req.lmp_date.pad
    /\ IsSuccess(res)
    /\ res.body.estimated_delivery_date.y = req.lmp_date.y + 1

(***************************************************************************)
(* C8.  schedule_anc_visits(lmp = D): for every valid LMP date D the       *)
(* CarePlan has exactly 8 activities, and the start of the i-th is D plus  *)
(* 7 * w days for w the i-th of 12, 20, 26, 30, 34, 36, 38, 40, first      *)
(* contact first and eighth contact last.                                  *)
(***************************************************************************)
C8_Weeks == <<12, 20, 26, 30, 34, 36, 38, 40>>

C8_Contacts == <<"First contact: Up to 12 weeks", "Second contact: 20 weeks",
                 "Third contact: 26 weeks", "Fourth contact: 30 weeks",
                 "Fifth contact: 34 weeks", "Sixth contact: 36 weeks",
                 "Seventh contact: 38 weeks",
                 "Eighth contact: 40 weeks (or around EDD)">>

C8_EightVisitsByWeeks ==
    (Done /\ op \in ScheduleOps /\ req.lmp_date.t = "datestr"
          /\ ValidDateText(req.lmp_date) /\ NotSupplied(req.edd_date)) =>
        /\ IsSuccess(res)
        /\ Len(res.body.activity) = 8
        /\ \A i \in 1..8 :
             LET detail == res.body.activity[i].detail IN
             /\ DayOf(detail.scheduledPeriod.start) =
                   CalAddDays(DateOf(req.lmp_date), 7 * C8_Weeks[i])
             /\ detail.scheduledPeriod.start.time = "T00:00:00"
             /\ detail.description = C8_Contacts[i]

\* an LMP on 31 December: every visit falls in the next year
C8_Witness ==
    /\ Done /\ op = "schedule_anc_visits_logic"
    /\ ValidDateText(req.lmp_date) /\ NotSupplied(req.edd_date)
    /\ req.lmp_date.m = 12 /\ req.lmp_date.d = 31
    /\ IsSuccess(res)
    /\ Len(res.body.activity) = 8
    /\ DayOf(res.body.activity[8].detail.scheduledPeriod.start).y = req.lmp_date.y + 1

(***************************************************************************)
(* C9.  schedule_anc_visits(edd = E) gives, for every valid EDD date E,    *)
(* the 8 visit dates, the period and the description that                  *)
(* schedule_anc_visits(lmp = E - 280 days) gives; and the EDD derived from *)
(* an LMP leads back to that LMP.                                          *)
(***************************************************************************)
C9_ByLmp(lmp_text, patient_id) ==
    schedule_anc_visits_logic([body |-> "dict", lmp_date |-> lmp_text,
                               edd_date |-> DateOther("absent"),
                               patient_id |-> patient_id])

C9_ByEdd(edd_text, patient_id) ==
    schedule_anc_visits_logic([body |-> "dict", lmp_date |-> DateOther("absent"),
                               edd_date |-> edd_text, patient_id |-> patient_id])

C9_SameSchedule(a, b) ==
    /\ IsSuccess(a) /\ IsSuccess(b)
    /\ a.body.activity = b.body.activity
    /\ a.body.period = b.body.period
    /\ a.body.description = b.body.description

C9_EddConsistentWithLmp ==
    /\ (Done /\ op \in ScheduleOps /\ ~Truthy(req.lmp_date)
             /\ ValidDateText(req.edd_date)) =>
          C9_SameSchedule(res,
              C9_ByLmp(TextOf(CalAddDays(DateOf(req.edd_date), 0 - 280)),
                       req.patient_id))
    /\ (Done /\ op \in ScheduleOps /\ ValidDateText(req.lmp_date)
             /\ NotSupplied(req.edd_date)) =>
          /\ IsSuccess(res)
          /\ C9_SameSchedule(res,
                C9_ByEdd(TextOf(DayOf(res.body.period.end)), req.patient_id))

\* an EDD early in a leap year, whose LMP lies in the year before
C9_Witness ==
    /\ Done /\ op = "mcp.schedule_anc_visits"
    /\ ~Truthy(req.lmp_date) /\ ValidDateText(req.edd_date)
    /\ req.edd_date.m = 3 /\ req.edd_date.d = 1 /\ CalLeap(req.edd_date.y)
    /\ IsSuccess(res)
    /\ DayOf(res.body.period.start).y = req.edd_date.y - 1
    /\ DayOf(res.body.period.end) = DateOf(req.edd_date)

(***************************************************************************)
(* C10.  get_immunization_schedule: for every valid date of birth and any  *)
(* patient_id there are exactly 20 activities in the order of the table,   *)
(* BCG first and OPV Booster 1 last, and the three birth doses (BCG,       *)
(* OPV-0, Hepatitis B - Birth) start on the date of birth.                 *)
(***************************************************************************)
C10_Vaccines == <<"BCG", "OPV-0", "Hepatitis B - Birth",
                  "Pentavalent-1 (DTP-HepB-Hib)", "OPV-1", "PCV-1", "Rotavirus-1",
                  "Pentavalent-2", "OPV-2", "PCV-2", "Rotavirus-2",
                  "Pentavalent-3", "OPV-3", "PCV-3", "IPV-1",
                  "Measles-Mumps-Rubella (MMR) - 1", "Vitamin A - 1",
                  "Measles-Mumps-Rubella (MMR) - 2", "DTP Booster 1",
                  "OPV Booster 1">>

C10_TwentyInTableOrder ==
    (Done /\ op \in ImmunizationOps /\ ValidDateText(req.dob)
          /\ req.patient_id.t # "absent") =>
        /\ IsSuccess(res)
        /\ Len(res.body.activity) = 20
        /\ \A i \in 1..20 :
             res.body.activity[i].detail.description[1] = C10_Vaccines[i]
        /\ \A i \in 1..3 :
             /\ DayOf(res.body.activity[i].detail.scheduledPeriod.start) = DateOf(req.dob)
             /\ res.body.activity[i].detail.scheduledPeriod.start.time = "T00:00:00"

\* a child born on 29 February, registered without a patient_id value
C10_Witness ==
    /\ Done /\ op = "get_immunization_schedule_logic"
    /\ ValidDateText(req.dob) /\ req.dob.m = 2 /\ req.dob.d = 29
    /\ req.patient_id.t = "none"
    /\ IsSuccess(res)
    /\ Len(res.body.activity) = 20
    /\ DayOf(res.body.activity[1].detail.scheduledPeriod.start) = DateOf(req.dob)

(***************************************************************************)
(* C11.  get_immunization_schedule: for every date of birth and every row  *)
(* of the table, the start date is the date of birth advanced by           *)
(* floor(age_months) calendar months, the day clipped to the length of the *)
(* target month, and then by 15 days for the 1.5, 2.5 and 3.5 month rows   *)
(* and by 0 days for the 0, 9, 15 and 18 month rows.                       *)
(***************************************************************************)
\* floor(age_months) of the 20 rows
C11_Months == <<0, 0, 0, 1, 1, 1, 1, 2, 2, 2, 2, 3, 3, 3, 3, 9, 9, 15, 18, 18>>

\* floor((age_months mod 1) * 30.4375) of the 20 rows
C11_ExtraDays == <<0, 0, 0, 15, 15, 15, 15, 15, 15, 15, 15, 15, 15, 15, 15, 0, 0, 0, 0, 0>>

\* dt advanced by k calendar months, the day clipped to the month's length
C11_AddMonths(dt, k) ==
    LET index == 12 * dt.y + (dt.m - 1) + k
        y == index \div 12
        m == (index % 12) + 1
        d == IF dt.d > CalMonthDays(y, m) THEN CalMonthDays(y, m) ELSE dt.d
    IN  Date(y, m, d)

C11_FractionalMonths ==
    (Done /\ op \in ImmunizationOps /\ IsSuccess(res)) =>
        /\ Len(res.body.activity) = Len(C11_Months)
        /\ \A i \in 1..Len(C11_Months) :
              DayOf(res.body.activity[i].detail.scheduledPeriod.start)
                  = CalAddDays(C11_AddMonths(DateOf(req.dob), C11_Months[i]),
                               C11_ExtraDays[i])

\* a child born on 31 March: the 1.5 month dose falls on 15 May (30 April and
\* 15 days) and the 9 month dose on 31 December
C11_Witness ==
    /\ Done /\ op \in ImmunizationOps /\ IsSuccess(res)
    /\ DateOf(req.dob) = Date(FirstYear, 3, 31)
    /\ DayOf(res.body.activity[4].detail.scheduledPeriod.start) = Date(FirstYear, 5, 15)
    /\ DayOf(res.body.activity[16].detail.scheduledPeriod.start) = Date(FirstYear, 12, 31)

(***************************************************************************)
(* C12.  growth_monitoring: with age_in_months = age_in_days / 30.4375,    *)
(* the weight-for-age code is L exactly when age_in_months < 60 and        *)
(* weight_kg < 2 + 0.5 * age_in_months, and N otherwise: N for every       *)
(* weight from 60 months on, and N for 3 kg on the day of birth.           *)
(***************************************************************************)
\* age_in_days is the number of days from dob to measurement_date
C12_AgeIsDaysBetween ==
    CalAddDays(DateOf(req.dob), res.body.age_in_days) = DateOf(req.measurement_date)

\* age_in_months = 16 * days / 487:  months < 60  is  16 * days < 60 * 487,
\* weight < 2 + months / 2  is  487 * weight < 974 + 8 * days
C12_Underweight(days, weight) ==
    16 * days < 60 * 487 /\ 487 * weight < 974 + 8 * days

C12_WeightForAge ==
    (Done /\ op \in GrowthToolOps /\ IsSuccess(res)) =>
        LET days   == res.body.age_in_days
            weight == req.weight_kg.n
            code   == CodesOf(res)[1]
        IN  /\ C12_AgeIsDaysBetween
            /\ code = (IF C12_Underweight(days, weight) THEN "L" ELSE "N")
            /\ 16 * days >= 60 * 487 => code = "N"
            /\ (days = 0 /\ weight = 3) => code = "N"

\* 1 kg at 1827 days, just past 60 months: normal
C12_Witness ==
    /\ Done /\ op \in GrowthToolOps /\ IsSuccess(res)
    /\ res.body.age_in_days = 1827
    /\ req.weight_kg.n = 1
    /\ CodesOf(res)[1] = "N"

(***************************************************************************)
(* C13.  growth_monitoring: the height-for-age code is L exactly when      *)
(* age_in_months < 60 and height_cm < 50 + age_in_months, and N otherwise: *)
(* N for every height from 60 months on, and N for 50 cm on the day of     *)
(* birth.                                                                  *)
(***************************************************************************)
\* height < 50 + months  is  487 * height < 50 * 487 + 16 * days
C13_Stunted(days, height) ==
    16 * days < 60 * 487 /\ 487 * height < 50 * 487 + 16 * days

C13_HeightForAge ==
    (Done /\ op \in GrowthToolOps /\ IsSuccess(res)) =>
        LET days   == res.body.age_in_days
            height == req.height_cm.n
            code   == CodesOf(res)[2]
        IN  /\ CalAddDays(DateOf(req.dob), days) = DateOf(req.measurement_date)
            /\ code = (IF C13_Stunted(days, height) THEN "L" ELSE "N")
            /\ 16 * days >= 60 * 487 => code = "N"
            /\ (days = 0 /\ height = 50) => code = "N"

\* 51 cm at 1827 days, just past 60 months: normal, although 51 < 50 + 60
C13_Witness ==
    /\ Done /\ op \in GrowthToolOps /\ IsSuccess(res)
    /\ res.body.age_in_days = 1827
    /\ req.height_cm.n = 51
    /\ CodesOf(res)[2] = "N"

(***************************************************************************)
(* C14.  growth_monitoring: whenever height_cm is zero or negative the     *)
(* weight-for-height code is IE, never N, L or H, nothing is divided by    *)
(* zero, and the call returns a success result with three observations.    *)
(***************************************************************************)
\* the date a comes before the date b
DateBefore(a, b) ==
    \/ a.y < b.y
    \/ a.y = b.y /\ a.m < b.m
    \/ a.y = b.y /\ a.m = b.m /\ a.d < b.d

\* a number, or a numeral in a string
IsNumber(v) == v.t \in {"int", "numstr"}

\* a request acceptable in every field but, possibly, its height
GrowthFieldsValid(d) ==
    /\ ValidDateText(d.dob)
    /\ ValidDateText(d.measurement_date)
    /\ ~DateBefore(DateOf(d.measurement_date), DateOf(d.dob))
    /\ IsNumber(d.weight_kg)
    /\ d.gender.t = "str" /\ d.gender.s \in {"male", "Male", "female", "FEMALE"}
    /\ d.patient_id.t # "absent"

C14_NoHeightIsInsufficientEvidence ==
    (Done /\ op \in GrowthToolOps /\ GrowthFieldsValid(req)
          /\ IsNumber(req.height_cm) /\ req.height_cm.n <= 0) =>
        /\ IsSuccess(res)
        /\ Len(res.body.fhir_observations) = 3
        /\ CodesOf(res)[3] = "IE"

\* 15 kg and 0 cm at two years: accepted, weight-for-height IE
C14_Witness ==
    /\ Done /\ op \in GrowthToolOps /\ GrowthFieldsValid(req)
    /\ req.height_cm = PyInt(0) /\ req.weight_kg = PyInt(15)
    /\ IsSuccess(res)
    /\ res.body.age_in_days = 731
    /\ CodesOf(res) = <<"N", "L", "IE">>

(***************************************************************************)
(* C15.  growth_monitoring: when height_cm > 0 and                         *)
(* B = weight_kg / (height_cm / 100)^2, the weight-for-height code is L    *)
(* when B < 15 and age_in_months > 6, H when B > 25 and age_in_months > 24,*)
(* and N in every other case.                                              *)
(***************************************************************************)
\* B < k  is  10000 * weight < k * height^2;  months > k  is  16 * days > 487 * k
C15_Expected(days, weight, height) ==
    IF 10000 * weight < 15 * height * height /\ 16 * days > 487 * 6 THEN "L"
    ELSE IF 10000 * weight > 25 * height * height /\ 16 * days > 487 * 24 THEN "H"
    ELSE "N"

\* the part of the claim about heights that are ordinary numbers
C15_OrdinaryHeights ==
    (Done /\ op \in GrowthToolOps /\ GrowthFieldsValid(req)
          /\ IsNumber(req.height_cm) /\ req.height_cm.n > 0) =>
        /\ IsSuccess(res)
        /\ CodesOf(res)[3] =
              C15_Expected(res.body.age_in_days, req.weight_kg.n, req.height_cm.n)

\* every height above zero, 1e-200 and 1e200 included
C15_WeightForHeight ==
    /\ C15_OrdinaryHeights
    /\ (Done /\ op \in GrowthToolOps /\ GrowthFieldsValid(req)
             /\ req.height_cm.t = "float") =>
          /\ IsSuccess(res)
          /\ CodesOf(res)[3] \in {"L", "H", "N"}

(***************************************************************************)
(* C16.  growth_monitoring: whenever measurement_date is earlier than dob  *)
(* the call returns a 400 error result and produces no observations, no    *)
(* age_in_days and no age_in_months: a negative age never reaches the      *)
(* threshold comparisons.                                                  *)
(***************************************************************************)
\* both dates are dates of the calendar and the measurement comes first
C16_MeasuredBeforeBirth(d) ==
    /\ ValidDateText(d.dob)
    /\ ValidDateText(d.measurement_date)
    /\ DateBefore(DateOf(d.measurement_date), DateOf(d.dob))

\* the fields beside the two dates are acceptable
C16_OtherFieldsValid(d) ==
    /\ IsNumber(d.weight_kg)
    /\ IsNumber(d.height_cm) \/ d.height_cm.t = "float"
    /\ d.gender.t = "str" /\ d.gender.s \in {"male", "Male", "female", "FEMALE"}
    /\ d.patient_id.t # "absent"

C16_NegativeAgeRejected ==
    (Done /\ op \in GrowthToolOps /\ C16_MeasuredBeforeBirth(req)) =>
        /\ ~IsSuccess(res)
        /\ C16_OtherFieldsValid(req) =>
              res = Error400("Measurement date cannot be before date of birth.")

\* a measurement dated the day before the birth: rejected with the message
\* about the dates and nothing else
C16_Witness ==
    /\ Done /\ op \in GrowthToolOps
    /\ DateOf(req.dob) = Date(FirstYear, 1, 15)
    /\ DateOf(req.measurement_date) = Date(FirstYear, 1, 14)
    /\ C16_OtherFieldsValid(req)
    /\ IsError(res) /\ res.status = 400 /\ DOMAIN res.body = {"error"}

(***************************************************************************)
(* C17.  analyze_anc_visit_data: for every input where neither the         *)
(* blood-pressure check nor the bleeding check triggers, an input with no  *)
(* vitals and no symptoms keys included, risks_identified holds exactly    *)
(* one entry, of severity low and without a risk_code, and recommendations *)
(* holds exactly one generic entry.                                        *)
(***************************************************************************)
\* the request of an analyze call, whichever surface took it, when vitals
\* and symptoms are each a dictionary or not there
C17_Analyzable ==
    /\ Done /\ op \in AnalyzeOps
    /\ op = "analyze_anc_visit_data_logic" => req.body = "dict"
    /\ req.vitals.t \in {"dict", "absent"}
    /\ req.symptoms.t \in {"dict", "absent"}

\* a reading that is a number, or a numeral, at or above k
C17_AtLeast(v, k) == IsNumber(v) /\ v.n >= k

\* no reading reaches its threshold and bleeding is not exactly true
C17_NothingTriggers ==
    /\ ~C17_AtLeast(req.vitals.bp_systolic, 140)
    /\ ~C17_AtLeast(req.vitals.bp_diastolic, 90)
    /\ req.symptoms.bleeding # PyBool(TRUE)

C17_HasRiskCode(risk) == "risk_code" \in DOMAIN risk

C17_OneNoRiskFlag ==
    C17_Analyzable =>
        /\ IsSuccess(res)
        /\ (C17_NothingTriggers
              \/ Count(res.body.risks_identified, C17_HasRiskCode) = 0) =>
              /\ Len(res.body.risks_identified) = 1
              /\ res.body.risks_identified[1].severity = "low"
              /\ ~C17_HasRiskCode(res.body.risks_identified[1])
              /\ res.body.recommendations = <<NO_RISK_RECOMMENDATION>>

\* the logic layer given a body with no vitals and no symptoms keys
C17_Witness ==
    /\ C17_Analyzable
    /\ op = "analyze_anc_visit_data_logic"
    /\ req.vitals.t = "absent" /\ req.symptoms.t = "absent"
    /\ Len(res.body.risks_identified) = 1
    /\ res.body.risks_identified[1].severity = "low"
    /\ Len(res.body.recommendations) = 1

(***************************************************************************)
(* C18.  schedule_anc_visits called with neither lmp_date nor edd_date,    *)
(* both keys absent or both passed as null by the tool surface, returns a  *)
(* 400 error result saying that one of them must be provided, and produces *)
(* no CarePlan and no exception.                                           *)
(***************************************************************************)
C18_NoAnchor ==
    /\ Done /\ op \in ScheduleOps
    /\ op = "schedule_anc_visits_logic" => req.body = "dict"
    /\ NotSupplied(req.lmp_date)
    /\ NotSupplied(req.edd_date)

C18_MissingAnchorsRejected ==
    C18_NoAnchor =>
        /\ ~IsRaise(res)
        /\ IsError(res)
        /\ res.status = 400
        /\ res.body = [error |-> "Either LMP date or EDD date must be provided"]

\* the tool called with no argument at all: every key is passed as None
C18_Witness ==
    /\ C18_NoAnchor
    /\ op = "mcp.schedule_anc_visits"
    /\ req.lmp_date.t = "none" /\ req.edd_date.t = "none" /\ req.patient_id.t = "none"
    /\ IsError(res) /\ res.status = 400

(***************************************************************************)
(* C19.  calculate_edd, schedule_anc_visits, get_immunization_schedule:    *)
(* whenever the anchor date string the operation reads (lmp_date; for      *)
(* schedule_anc_visits lmp_date when supplied, otherwise edd_date; dob) is *)
(* not a valid calendar date, the call returns a 400 error result with a   *)
(* YYYY-MM-DD format hint and produces no EDD and no schedule.             *)
(***************************************************************************)
\* the 400 results that carry the format hint
C19_FormatErrors ==
    { Error400("Invalid LMP date format. Use YYYY-MM-DD."),
      Error400("Invalid date format. Use YYYY-MM-DD."),
      Error400("Invalid DOB format. Use YYYY-MM-DD.") }

\* a string that names no date of the calendar
C19_Malformed(v) == IsStr(v) /\ ~ValidDateText(v)

\* calculate_edd and get_immunization_schedule read their one anchor
C19_SingleAnchor ==
    /\ (Done /\ op \in EddOps /\ C19_Malformed(req.lmp_date)) =>
          res \in C19_FormatErrors
    /\ (Done /\ op \in ImmunizationOps /\ req.patient_id.t # "absent"
             /\ C19_Malformed(req.dob)) =>
          res \in C19_FormatErrors

C19_NonEmptyAnchor ==
    IF Truthy(req.lmp_date) THEN req.lmp_date ELSE req.edd_date

C20_Absent(fields) == { f \in fields : ~Has(req, f) }

\* the field names an error message of get_immunization_schedule names
C20_NamesIn(message) ==
    IF message = "Date of Birth (dob) and patient_id are required"
    THEN {"dob", "patient_id"}
    ELSE {}

\* growth_monitoring: the names after "Missing one or more required fields: "
C20_GrowthListsMissing ==
    (Done /\ op \in GrowthToolOps /\ req.body = "dict"
          /\ C20_Absent({ required_fields[i] : i \in 1..Len(required_fields) }) # {}) =>
        /\ IsError(res) /\ res.status = 400
        /\ { res.body.missing[i] : i \in 1..Len(res.body.missing) }
              = C20_Absent({ required_fields[i] : i \in 1..Len(required_fields) })

C20_ImmunizationListsMissing ==
    (Done /\ op = "get_immunization_schedule_logic" /\ req.body = "dict"
          /\ C20_Absent({"dob", "patient_id"}) # {}) =>
        /\ IsError(res) /\ res.status = 400
        /\ C20_NamesIn(res.body.error) = C20_Absent({"dob", "patient_id"})

C20_MissingFieldsListed ==
    C20_GrowthListsMissing /\ C20_ImmunizationListsMissing

(***************************************************************************)
(* C21.  Every call ends in a result that carries the status of its kind:  *)
(* 201 for a successful register_pregnancy or register_child, 400 for      *)
(* every error result, 200 for every other success, and nothing else.      *)
(***************************************************************************)
CreationOps ==
    { "register_pregnancy_logic", "mcp.register_pregnancy",
      "register_child_logic", "mcp.register_child" }

\* the status a returned result carries; a body returned alone is answered
\* with 200
StatusCarried(r) == IF "status" \in DOMAIN r THEN r.status ELSE 200

\* the part about results that are returned
C21_ReturnedStatusFollowsKind ==
    (Done /\ ~IsRaise(res)) =>
        /\ IsError(res) => StatusCarried(res) = 400
        /\ (IsSuccess(res) /\ op \in CreationOps) => StatusCarried(res) = 201
        /\ (IsSuccess(res) /\ op \notin CreationOps) => StatusCarried(res) = 200

C21_StatusFollowsKind ==
    Done =>
        /\ ~IsRaise(res)
        /\ IsError(res) => StatusCarried(res) = 400
        /\ (IsSuccess(res) /\ op \in CreationOps) => StatusCarried(res) = 201
        /\ (IsSuccess(res) /\ op \notin CreationOps) => StatusCarried(res) = 200

\* a registration answered with 201, a lookup answered with 200
C21_Created ==
    Done /\ op = "register_child_logic" /\ IsSuccess(res) /\ StatusCarried(res) = 201

C21_HttpFailure ==
    Done /\ op = "http.calculate_edd" /\ IsRaise(res)

(***************************************************************************)
(* C22.  analyze_anc_visit_data: when the blood-pressure check and the     *)
(* bleeding check both trigger, risks_identified is exactly the            *)
(* ANC_HIGH_BP flag followed by the ANC_BLEEDING flag and recommendations  *)
(* is the blood-pressure recommendation followed by the bleeding one; the  *)
(* result is the same for every order of the keys of the input.            *)
(***************************************************************************)
\* both checks trigger on the request of an analyze call
C22_BothTrigger ==
    /\ Done /\ op \in AnalyzeOps
    /\ req.vitals.t = "dict" /\ req.symptoms.t = "dict"
    /\ bp_check(req.vitals.bp_systolic, req.vitals.bp_diastolic)
    /\ bleeding_check(req.symptoms.bleeding)

C22_FlagsInCheckOrder ==
    /\ C22_BothTrigger =>
          /\ IsSuccess(res)
          /\ res.body.risks_identified = <<HIGH_BP_RISK, BLEEDING_RISK>>
          /\ res.body.recommendations =
                <<HIGH_BP_RECOMMENDATION, BLEEDING_RECOMMENDATION>>
    /\ (Done /\ op = "analyze_anc_visit_data_logic" /\ req.body = "dict") =>
          \A k \in KeyOrders :
              analyze_anc_visit_data_logic([req EXCEPT !.key_order = k]) = res

\* both checks trigger on a body whose symptoms key comes before its vitals key
C22_Witness ==
    /\ C22_BothTrigger
    /\ op = "analyze_anc_visit_data_logic"
    /\ req.key_order = <<"symptoms", "vitals", "patient_id">>
    /\ req.vitals.bp_systolic = PyInt(139) /\ req.vitals.bp_diastolic = PyInt(90)
    /\ res.body.risks_identified[1].risk_code = "ANC_HIGH_BP"
    /\ res.body.risks_identified[2].risk_code = "ANC_BLEEDING"

(***************************************************************************)
(* C23.  analyze_anc_visit_data: when bp_systolic or bp_diastolic is       *)
(* there and is no number (a non-numeric string), the call succeeds, no    *)
(* ANC_HIGH_BP flag is added, and the result is the result for the same    *)
(* input without the two readings.                                         *)
(***************************************************************************)
C23_NonNumeric(v) == v.t \in {"badstr", "emptystr"}

\* the request of the logic layer with the two readings taken out
C23_WithoutReadings ==
    [req EXCEPT !.vitals.bp_systolic = Absent, !.vitals.bp_diastolic = Absent]

C23_NonNumericReadingsIgnored ==
    (Done /\ op = "analyze_anc_visit_data_logic" /\ req.body = "dict"
          /\ req.vitals.t = "dict" /\ req.symptoms.t \in {"dict", "absent"}
          /\ (C23_NonNumeric(req.vitals.bp_systolic)
              \/ C23_NonNumeric(req.vitals.bp_diastolic))) =>
        /\ IsSuccess(res)
        /\ Count(res.body.risks_identified, IsHighBpFlag) = 0
        /\ res = analyze_anc_visit_data_logic(C23_WithoutReadings)

\* a non-numeric systolic reading: the check is left without a flag
C23_SystolicIgnored ==
    /\ Done /\ op = "analyze_anc_visit_data_logic" /\ req.body = "dict"
    /\ req.vitals.t = "dict" /\ req.symptoms.t = "dict"
    /\ req.vitals.bp_systolic = BadStr /\ req.vitals.bp_diastolic = PyInt(150)
    /\ req.symptoms.bleeding = PyBool(TRUE)
    /\ Len(res.body.risks_identified) = 1
    /\ res.body.risks_identified[1].risk_code = "ANC_BLEEDING"

(***************************************************************************)
(* C24.  analyze_anc_visit_data: the result holds the ANC_BLEEDING flag    *)
(* (once) exactly when symptoms.bleeding is the boolean true; a missing    *)
(* field, false, 1 and strings never produce it, whatever the              *)
(* blood-pressure readings are.                                            *)
(***************************************************************************)
C24_IsBleedingFlag(risk) ==
    "risk_code" \in DOMAIN risk /\ risk.risk_code = "ANC_BLEEDING"

C24_BleedingIffTrue ==
    C17_Analyzable =>
        /\ IsSuccess(res)
        /\ Count(res.body.risks_identified, C24_IsBleedingFlag) =
              IF req.symptoms.bleeding = PyBool(TRUE) THEN 1 ELSE 0

\* bleeding given as 1 next to readings that raise the blood-pressure flag:
\* no bleeding flag
C24_Witness ==
    /\ Done /\ op = "analyze_anc_visit_data_logic"
    /\ req.vitals.t = "dict" /\ req.symptoms.t = "dict"
    /\ req.symptoms.bleeding = PyInt(1)
    /\ req.vitals.bp_systolic = PyInt(150) /\ req.vitals.bp_diastolic = PyInt(80)
    /\ IsSuccess(res)
    /\ Count(res.body.risks_identified, C24_IsBleedingFlag) = 0
    /\ Count(res.body.risks_identified, IsHighBpFlag) = 1

\* used for C23: a reading that is no number never makes the call fail
C23_NeverFails ==
    (Done /\ op = "analyze_anc_visit_data_logic" /\ req.body = "dict"
          /\ req.vitals.t = "dict" /\ req.symptoms.t \in {"dict", "absent"}) =>
        IsSuccess(res)

(***************************************************************************)
(* C25.  In every schedule the window of an activity ends a fixed number   *)
(* of days after it starts: one calendar day for each of the 8 ANC visits, *)
(* seven calendar days for each of the 20 immunization activities,         *)
(* whatever the anchor date.                                               *)
(***************************************************************************)
\* every activity of a schedule ends n calendar days after its start
C25_WindowsOf(activity, n) ==
    \A i \in 1..Len(activity) :
        LET period == activity[i].detail.scheduledPeriod IN
        /\ DayOf(period.end) = CalAddDays(DayOf(period.start), n)
        /\ period.end.time = period.start.time

C25_FixedWindows ==
    /\ (Done /\ op \in ScheduleOps /\ IsSuccess(res)) =>
          /\ Len(res.body.activity) = 8
          /\ C25_WindowsOf(res.body.activity, 1)
    /\ (Done /\ op \in ImmunizationOps /\ IsSuccess(res)) =>
          /\ Len(res.body.activity) = 20
          /\ C25_WindowsOf(res.body.activity, 7)

\* a dose due on 29 February of a leap year: its window ends on 7 March
C25_Witness ==
    /\ Done /\ op \in ImmunizationOps /\ IsSuccess(res)
    /\ \E i \in 1..Len(res.body.activity) :
         LET period == res.body.activity[i].detail.scheduledPeriod IN
         /\ DayOf(period.start) = Date(FirstYear + 1, 2, 29)
         /\ DayOf(period.end) = Date(FirstYear + 1, 3, 7)

(***************************************************************************)
(* C27.  schedule_anc_visits given both lmp_date and edd_date computes the *)
(* schedule from lmp_date alone: the result is the result of the call with *)
(* the same lmp_date and no edd_date, whatever edd_date holds (a malformed *)
(* text, or a date other than lmp_date + 280 days).                        *)
(***************************************************************************)
\* the result of the same call without its edd_date
C27_ByLmpAlone ==
    schedule_anc_visits_logic([body |-> "dict", lmp_date |-> req.lmp_date,
                               edd_date |-> DateOther("absent"),
                               patient_id |-> req.patient_id])

C28_Lmp ==
    IF Truthy(req.lmp_date) THEN DateOf(req.lmp_date)
    ELSE CalAddDays(DateOf(req.edd_date), 0 - 280)

C28_PeriodHoldsVisits ==
    (Done /\ op \in ScheduleOps /\ IsSuccess(res)) =>
        LET period == res.body.period
            start(i) == res.body.activity[i].detail.scheduledPeriod.start
        IN  /\ DayOf(period.start) = C28_Lmp
            /\ DayOf(period.end) = CalAddDays(C28_Lmp, 280)
            /\ (~Truthy(req.lmp_date)) => DayOf(period.end) = DateOf(req.edd_date)
            /\ Len(res.body.activity) = 8
            /\ start(8) = period.end
            /\ \A i \in 1..8 :
                 /\ ~DateBefore(DayOf(start(i)), DayOf(period.start))
                 /\ ~DateBefore(DayOf(period.end), DayOf(start(i)))
                 /\ start(i).time = period.start.time

\* a schedule anchored on an edd_date of 29 February: the period starts in the
\* year before and the eighth visit falls on the edd_date
C28_Witness ==
    /\ Done /\ op \in ScheduleOps /\ IsSuccess(res)
    /\ ~Truthy(req.lmp_date)
    /\ req.edd_date = DateStr(FirstYear + 1, 2, 29, TRUE)
    /\ DayOf(res.body.period.start) = Date(FirstYear, 5, 25)
    /\ DayOf(res.body.activity[8].detail.scheduledPeriod.start) =
          Date(FirstYear + 1, 2, 29)

(***************************************************************************)
(* C29.  get_immunization_schedule: for every date of birth, the 29th,     *)
(* 30th and 31st of a month and 29 February included, the start dates of   *)
(* the 20 activities never decrease along the table and none is before the *)
(* date of birth.                                                          *)
(***************************************************************************)
C29_StartsNeverDecrease ==
    (Done /\ op \in ImmunizationOps /\ IsSuccess(res)) =>
        LET start(i) == DayOf(res.body.activity[i].detail.scheduledPeriod.start)
        IN  /\ Len(res.body.activity) = 20
            /\ \A i \in 1..20 : ~DateBefore(start(i), DateOf(req.dob))
            /\ \A i \in 1..19 : ~DateBefore(start(i + 1), start(i))

\* a child born on 31 January of a common year: the 1.5 month dose is clipped
\* to 28 February and falls on 15 March, the 2.5 month dose on 15 April
C29_Witness ==
    /\ Done /\ op \in ImmunizationOps /\ IsSuccess(res)
    /\ DateOf(req.dob) = Date(FirstYear, 1, 31)
    /\ DayOf(res.body.activity[4].detail.scheduledPeriod.start) = Date(FirstYear, 3, 15)
    /\ DayOf(res.body.activity[8].detail.scheduledPeriod.start) = Date(FirstYear, 4, 15)
    /\ DayOf(res.body.activity[16].detail.scheduledPeriod.start) = Date(FirstYear, 10, 31)

(***************************************************************************)
(* C30.  For every date of birth the HTTP immunization-schedule endpoint   *)
(* and the get_immunization_schedule tool give the same 20 target dates in *)
(* the same order, although the half month is converted with 30 days per   *)
(* month by the one and with 30.4375 by the other.                         *)
(***************************************************************************)
\* the start dates of the activities of a successful schedule, in order
C30_Starts(r) ==
    [i \in 1..Len(r.body.activity) |-> r.body.activity[i].detail.scheduledPeriod.start]

C30_SameTargetDates ==
    (Done /\ op \in {"http.get_immunization_schedule", "mcp.get_immunization_schedule"}
          /\ ValidDateText(req.dob) /\ req.patient_id.t # "absent") =>
        LET tool == mcp_get_immunization_schedule(req.dob, req.patient_id)
            http == http_get_immunization_schedule(
                        [body |-> "dict", dob |-> req.dob, patient_id |-> req.patient_id])
        IN  /\ res = IF op = "http.get_immunization_schedule" THEN http ELSE tool
            /\ IsSuccess(tool) /\ IsSuccess(http)
            /\ Len(C30_Starts(http)) = 20
            /\ C30_Starts(http) = C30_Starts(tool)

\* the endpoint asked for a child born on 31 August: the 1.5 month dose falls
\* on 15 October by either constant
C30_Witness ==
    /\ Done /\ op = "http.get_immunization_schedule" /\ IsSuccess(res)
    /\ DateOf(req.dob) = Date(FirstYear, 8, 31)
    /\ DayOf(C30_Starts(res)[4]) = Date(FirstYear, 10, 15)
    /\ C30_Starts(res) =
          C30_Starts(mcp_get_immunization_schedule(req.dob, req.patient_id))

(***************************************************************************)
(* C26.  No operation keeps state between calls: in every interleaving of  *)
(* the calls of several callers, whatever was called before, the result of *)
(* a call is the result the function gives for the call's own input, and   *)
(* the names bound at module level are never changed.                      *)
(***************************************************************************)
\* what the function called gives for an input, taken alone
C26_Alone(fn, data) ==
    CASE fn = "analyze_anc_visit_data_logic" -> analyze_anc_visit_data_logic(data)
      [] fn = "calculate_edd_logic" -> calculate_edd_logic(data)
      [] fn = "growth_monitoring_logic" -> growth_monitoring_logic(data)

C26_ResultOfOwnInput ==
    /\ globals = ModuleAtImport
    /\ \A c \in Callers :
          frames[c].pc = "done" =>
              frames[c].result = C26_Alone(frames[c].fn, frames[c].data)
    /\ \A c, o \in Callers :
          (frames[c].pc = "done" /\ frames[o].pc = "done"
              /\ frames[c].fn = frames[o].fn /\ frames[c].data = frames[o].data) =>
              frames[c].result = frames[o].result

\* a call that found no risk ends while another call, on an input with both
\* risks, has appended its first flag and not yet returned
C26_Witness ==
    \E c, o \in Callers :
        /\ c # o
        /\ frames[c].pc = "done" /\ frames[c].fn = "analyze_anc_visit_data_logic"
        /\ IsSuccess(frames[c].result)
        /\ frames[c].result.body.risks_identified = <<NO_RISK>>
        /\ frames[o].pc = "bleeding"
        /\ frames[o].risks_identified = <<HIGH_BP_RISK>>

=============================================================================
